---- MODULE Spec2Model ----
(***************************************************************************)
(* Recognition-and-matching pipeline of backend/server.py:                 *)
(*   recognize_audio, convert_audio, concatenate_audio (specification      *)
(*   Spec) and process_offline_session (specification SpecBatch).          *)
(* The external collaborators (transcoding tool, fingerprint service,      *)
(* catalog service, history store) answer nondeterministically.            *)
(***************************************************************************)
EXTENDS Integers, Sequences, FiniteSets, TLC

VARIABLES
    op,                 \* the endpoint that was called
    pc,                 \* position of the handler
    configured,         \* ACRCLOUD_ACCESS_KEY and ACRCLOUD_ACCESS_SECRET are set
    authorization,      \* the Authorization header of the request
    request_audio,      \* request.audio_base64, as 4-byte words of the decoded buffer
    audio_data,         \* local audio_data (replaced by the transcoder's output)
    fmt,                \* local audio_format / audio_extension / needs_conversion
    files,              \* temporary files and directories that exist on disk
    tool,               \* what the last run of the transcoding tool did
    calls,              \* external requests issued so far, in order
    steps,              \* pipeline steps started so far, in order
    submitted,          \* the sample handed to the fingerprint service
    reply,              \* what the fingerprint service answered
    track,              \* local track (the candidate)
    search_raised,      \* an exception left the catalog search block (line 620)
    all_tracks,         \* local all_tracks: the entries the fuzzy scan fetched
    spynners_track,     \* local spynners_track
    recognition_result, \* local recognition_result
    response,           \* the HTTP response of the handler
    catalog,            \* the platform's Track entities, in fetch order
    history,            \* recognition_history_collection
    output_format,      \* request.output_format of convert/concatenate
    segments,           \* request.audio_segments of concatenate_audio
    recordings,         \* request.recordings of process_offline_session
    results,            \* local results of process_offline_session
    identified_tracks,  \* local identified_tracks of process_offline_session
    idx,                \* the recording the loop of process_offline_session is at
    is_valid_venue,     \* request.location.is_valid_venue
    item_env,           \* per recording: what the services answered for it
    inflight,           \* concurrent recognize_audio calls: the locals of each
    concat_list,        \* the lines of concat_list.txt handed to the tool
    now,                \* int(time.time())
    form,               \* the form data of the identify request of recognize_audio
    diamond_awards,     \* the documents of db["diamond_awards"], in insertion order
    black_diamonds,     \* the platform's black_diamonds of the user
    utc_date,           \* datetime.utcnow(), as a day number
    award_calls         \* the award_diamond calls: position, arguments, locals

vars == <<op, pc, configured, authorization, request_audio, audio_data, fmt,
          files, tool, calls, steps, submitted, reply, track, search_raised,
          all_tracks, spynners_track, recognition_result, response, catalog, history,
          output_format, segments, recordings, results, identified_tracks,
          idx, is_valid_venue, item_env, inflight, concat_list, now, form,
          diamond_awards, black_diamonds, utc_date, award_calls>>

---------------------------------------------------------------------------
(* Bounds of the model *)
MaxCatalog == 2
MaxRecordings == 3
MaxSegments == 2
MaxCalls == 2
MaxBucketItems == 1
MaxBufferChunks == 2
MaxSignedRequests == 2
MaxAwardCalls == 2
MaxDays == 1

(* Program constants; scores are in thousandths *)
FuzzyThreshold == 450
OfflineThreshold == 500
CatalogFetchLimit == 500

Min(a, b) == IF a < b THEN a ELSE b

---------------------------------------------------------------------------
(* Strings are sequences of one-character strings.  Scores are exact       *)
(* fractions [num, den] with den > 0.                                      *)

Punctuation == {"(", ")", "!", ",", "-"}
Lower == [A |-> "a", B |-> "b", R |-> "r", U |-> "u"]

\* str.lower()
lower(s) == [i \in 1..Len(s) |-> IF s[i] \in DOMAIN Lower THEN Lower[s[i]] ELSE s[i]]

RECURSIVE IndexFrom(_, _, _)
IndexFrom(s, c, i) ==
    IF i > Len(s) THEN 0 ELSE IF s[i] = c THEN i ELSE IndexFrom(s, c, i + 1)

\* re.sub(r'\s*\([^)]*\)\s*', ' ', title): every "(" that has a ")" after it
\* is replaced, with the text up to the first such ")", by one space (the
\* whitespace the pattern also takes is collapsed by the split below)
RECURSIVE StripParentheses(_)
StripParentheses(s) ==
    IF s = <<>> THEN <<>>
    ELSE IF s[1] = "(" /\ IndexFrom(s, ")", 2) # 0
    THEN <<" ">> \o StripParentheses(SubSeq(s, IndexFrom(s, ")", 2) + 1, Len(s)))
    ELSE <<s[1]>> \o StripParentheses(Tail(s))

\* re.sub(r'[^\w\s]', ' ', title)
StripSpecial(s) == [i \in 1..Len(s) |-> IF s[i] \in Punctuation THEN " " ELSE s[i]]

\* str.split(): the maximal runs of characters that are not whitespace
RECURSIVE SplitFrom(_, _, _)
SplitFrom(s, i, word) ==
    IF i > Len(s) THEN (IF word = <<>> THEN <<>> ELSE <<word>>)
    ELSE IF s[i] = " "
    THEN (IF word = <<>> THEN <<>> ELSE <<word>>) \o SplitFrom(s, i + 1, <<>>)
    ELSE SplitFrom(s, i + 1, Append(word, s[i]))

split(s) == SplitFrom(s, 1, <<>>)

\* ' '.join(words)
RECURSIVE join(_)
join(words) ==
    IF words = <<>> THEN <<>>
    ELSE IF Len(words) = 1 THEN words[1]
    ELSE words[1] \o <<" ">> \o join(Tail(words))

\* lines 464-473
normalize_title(title) ==
    IF title = <<>> THEN <<>>
    ELSE lower(join(split(StripSpecial(StripParentheses(title)))))

\* a in b
Contains(a, b) ==
    \E i \in 0..(Len(b) - Len(a)) : SubSeq(b, i + 1, i + Len(a)) = a

\* set(s.split())
Words(s) == { split(s)[i] : i \in 1..Len(split(s)) }

\* difflib.SequenceMatcher: the length of the common run that starts at
\* a[i], b[j] within a[..ahi], b[..bhi]
RECURSIVE RunLen(_, _, _, _, _, _)
RunLen(a, b, i, j, ahi, bhi) ==
    IF i > ahi \/ j > bhi THEN 0
    ELSE IF a[i] # b[j] THEN 0
    ELSE 1 + RunLen(a, b, i + 1, j + 1, ahi, bhi)

\* find_longest_match: the longest common block of a[alo..ahi], b[blo..bhi],
\* the earliest in a among the longest, the earliest in b among those
find_longest_match(a, b, alo, ahi, blo, bhi) ==
    LET Blocks == { [i |-> i, j |-> j, k |-> RunLen(a, b, i, j, ahi, bhi)] :
                      i \in alo..ahi, j \in blo..bhi }
        Better(x, y) == \/ x.k > y.k
                        \/ x.k = y.k /\ x.i < y.i
                        \/ x.k = y.k /\ x.i = y.i /\ x.j < y.j
    IN CHOOSE x \in Blocks : \A y \in Blocks \ {x} : Better(x, y)

\* get_matching_blocks: the total size of the matching blocks
RECURSIVE MatchingChars(_, _, _, _, _, _)
MatchingChars(a, b, alo, ahi, blo, bhi) ==
    IF alo > ahi \/ blo > bhi THEN 0
    ELSE LET Size(m) ==
                 IF m.k = 0 THEN 0
                 ELSE m.k + MatchingChars(a, b, alo, m.i - 1, blo, m.j - 1)
                          + MatchingChars(a, b, m.i + m.k, ahi, m.j + m.k, bhi)
         IN CHOOSE n \in { Size(m) :
                             m \in {find_longest_match(a, b, alo, ahi, blo, bhi)} } : TRUE

\* lines 475-477: SequenceMatcher(None, a, b).ratio() = 2.0 * M / T, and 1.0
\* for two empty strings
similarity_score(a, b) ==
    IF Len(a) + Len(b) = 0 THEN [num |-> 1, den |-> 1]
    ELSE [num |-> 2 * MatchingChars(a, b, 1, Len(a), 1, Len(b)),
          den |-> Len(a) + Len(b)]

Greater(x, y) == x.num * y.den > y.num * x.den
AtLeast(x, thousandths) == x.num * 1000 >= thousandths * x.den

---------------------------------------------------------------------------
(* Requests *)

NoAuth == "none"
BearerU1 == "Bearer dTE6c2VjcmV0"
BearerMalformed == "Bearer %%%"
Authorizations == {NoAuth, BearerU1, BearerMalformed}

\* base64.b64decode(authorization.replace("Bearer ", "")).decode().split(":")[0];
\* "raise" when the decoding raises
token_user(auth) == IF auth = BearerU1 THEN "u1" ELSE "raise"

BadBase64 == <<"bad-padding">>

\* Decoded samples are sequences of bytes; "1A", "DF", "A3", "FF", "FB" stand
\* for the bytes of those values, "." for a byte of no magic number
AudioSamples ==
    { <<>>, <<"R", "I", "F", "F">>, <<"1A", "E", "DF", "A3">>,
      <<"f", "t", "y", "p">>, <<".", ".", ".", ".", "f", "t", "y", "p">>,
      <<"I", "D", "3", ".">>, <<"O", "g", "g", "S">>, BadBase64 }

ConvertedWav == <<"R", "I", "F", "F", ".", ".", ".", ".">>

\* buf[a:b] of Python, a and b counted from 0
Slice(buf, a, b) ==
    IF a >= Min(b, Len(buf)) THEN <<>> ELSE SubSeq(buf, a + 1, Min(b, Len(buf)))

\* recognize_audio reads the transcoder only when needs_conversion is
\* set for mp3 as well
detect_mp3_converted(buf) ==
    IF Slice(buf, 0, 4) = <<"R", "I", "F", "F">>
    THEN [format |-> "audio/wav", extension |-> "wav", needs_conversion |-> FALSE]
    ELSE IF Slice(buf, 0, 4) = <<"1A", "E", "DF", "A3">>
    THEN [format |-> "audio/webm", extension |-> "webm", needs_conversion |-> TRUE]
    ELSE IF Slice(buf, 0, 4) = <<"f", "t", "y", "p">>
            \/ Slice(buf, 4, 8) = <<"f", "t", "y", "p">>
    THEN [format |-> "audio/mp4", extension |-> "m4a", needs_conversion |-> TRUE]
    ELSE IF Slice(buf, 0, 3) = <<"I", "D", "3">> \/ Slice(buf, 0, 2) = <<"FF", "FB">>
    THEN [format |-> "audio/mpeg", extension |-> "mp3", needs_conversion |-> TRUE]
    ELSE IF Slice(buf, 0, 4) = <<"O", "g", "g", "S">>
    THEN [format |-> "audio/ogg", extension |-> "ogg", needs_conversion |-> TRUE]
    ELSE [format |-> "audio/wav", extension |-> "wav", needs_conversion |-> FALSE]

\* recognize_audio, magic-byte detection
detect(buf) ==
    IF Slice(buf, 0, 4) = <<"R", "I", "F", "F">>
    THEN [format |-> "audio/wav", extension |-> "wav", needs_conversion |-> FALSE]
    ELSE IF Slice(buf, 0, 4) = <<"1A", "E", "DF", "A3">>
    THEN [format |-> "audio/webm", extension |-> "webm", needs_conversion |-> TRUE]
    ELSE IF Slice(buf, 0, 4) = <<"f", "t", "y", "p">>
            \/ Slice(buf, 4, 8) = <<"f", "t", "y", "p">>
    THEN [format |-> "audio/mp4", extension |-> "m4a", needs_conversion |-> TRUE]
    ELSE IF Slice(buf, 0, 3) = <<"I", "D", "3">> \/ Slice(buf, 0, 2) = <<"FF", "FB">>
    THEN [format |-> "audio/mpeg", extension |-> "mp3", needs_conversion |-> FALSE]
    ELSE IF Slice(buf, 0, 4) = <<"O", "g", "g", "S">>
    THEN [format |-> "audio/ogg", extension |-> "ogg", needs_conversion |-> TRUE]
    ELSE [format |-> "audio/wav", extension |-> "wav", needs_conversion |-> FALSE]

NoFmt == [format |-> "", extension |-> "", needs_conversion |-> FALSE]

---------------------------------------------------------------------------
(* The transcoding tool *)

\* rc: exit code; output: the tool left an output file; raised: subprocess.run
\* raised (timeout, tool missing)
ToolOutcomes ==
    { [rc |-> 0, output |-> TRUE,  raised |-> FALSE],
      [rc |-> 0, output |-> FALSE, raised |-> FALSE],
      [rc |-> 1, output |-> FALSE, raised |-> FALSE],
      [rc |-> 1, output |-> TRUE,  raised |-> FALSE],
      [rc |-> 1, output |-> FALSE, raised |-> TRUE],
      [rc |-> 1, output |-> TRUE,  raised |-> TRUE] }

NoTool == [rc |-> -1, output |-> FALSE, raised |-> FALSE]

ToolSucceeded(o) == ~o.raised /\ o.rc = 0 /\ o.output

\* Temporary files: tempfile.NamedTemporaryFile / tempfile.mkdtemp give each
\* call names of its own
File(dir, name, n) == [dir |-> dir, name |-> name, idx |-> n]
InputPath == File("tmp", "input", 0)
OutputPath == File("tmp", "output", 0)
TempDir == File("temp_dir", "", 0)
SegmentPath(i) == File("temp_dir", "segment", i)
ConcatFilePath == File("temp_dir", "concat_list.txt", 0)
ConcatOutputPath == File("temp_dir", "concatenated", 0)

\* An error text of convert_audio and concatenate_audio, with the temporary
\* paths it spells out
Msg(text, paths) == [text |-> text, paths |-> paths]

\* What str(e) or the tool's stderr can be for an outcome of the run of
\* command line cmd_paths: subprocess.TimeoutExpired prints the command line,
\* a missing tool does not; the tool's stderr may name its input file
ToolMessages(o, cmd_paths) ==
    IF o.raised
    THEN { Msg("timed out", cmd_paths), Msg("No such file or directory: ffmpeg", {}) }
    ELSE IF o.rc = 0 /\ o.output THEN { Msg("", {}) }
    ELSE { Msg("stderr", {}), Msg("stderr", cmd_paths) }

\* what the tool run leaves on disk at `out`
ToolCreates(o, out) == IF o.output THEN {out} ELSE {}

---------------------------------------------------------------------------
(* Request signing *)

\* ACRCLOUD_ACCESS_KEY and ACRCLOUD_ACCESS_SECRET: "" when not configured
AccessKey(c) == IF c THEN "key" ELSE ""
AccessSecret(c) == IF c THEN "secret" ELSE ""

\* the version is put after the timestamp
string_to_sign_reordered(http_method, http_uri, access_key, data_type, signature_version, timestamp) ==
    <<http_method, "\n", http_uri, "\n", access_key, "\n", data_type, "\n",
      timestamp, "\n", signature_version>>

\* line 188: the fields joined by newlines
string_to_sign(http_method, http_uri, access_key, data_type, signature_version, timestamp) ==
    <<http_method, "\n", http_uri, "\n", access_key, "\n", data_type, "\n",
      signature_version, "\n", timestamp>>

\* base64 of HMAC-SHA1: a value that stands for the digest of (key, message),
\* different for different keys or messages
b64_hmac_sha1(key, message) == [hmac_key |-> key, hmac_message |-> message]

\* lines 184-196
generate_acrcloud_signature(http_method, http_uri, access_key, data_type, signature_version, timestamp, access_secret) ==
    b64_hmac_sha1(access_secret,
                  string_to_sign(http_method, http_uri, access_key, data_type,
                                 signature_version, timestamp))

\* lines 310-335 and 2077-2103: the form data of an identify request sent at
\* time t, timestamp = str(int(time.time()))
FormData(t, c) ==
    [access_key |-> AccessKey(c), timestamp |-> ToString(t),
     signature |-> generate_acrcloud_signature("POST", "/v1/identify", AccessKey(c),
                                               "audio", "1", ToString(t),
                                               AccessSecret(c)),
     data_type |-> "audio", signature_version |-> "1"]

NoForm ==
    [access_key |-> "", timestamp |-> "", signature |-> b64_hmac_sha1("", <<>>),
     data_type |-> "", signature_version |-> ""]

---------------------------------------------------------------------------
(* The fingerprint service *)

\* title and artist of the candidates: track.get("title"), and the joined
\* artists' names or "Unknown" (here "u")
AcrTitle == <<"a">>
AcrArtist == <<"u">>

NoTrack ==
    [bucket |-> "none", acrid |-> "", title |-> <<>>, artist |-> <<>>,
     spynners_track_id |-> 0, producer_id |-> ""]

CustomTrack(sid) ==
    [bucket |-> "custom_files", acrid |-> "a1", title |-> AcrTitle,
     artist |-> AcrArtist, spynners_track_id |-> sid, producer_id |-> "p1"]
MusicTrack(acrid) ==
    [bucket |-> "music", acrid |-> acrid, title |-> AcrTitle,
     artist |-> AcrArtist, spynners_track_id |-> 0, producer_id |-> ""]
HummingTrack ==
    [bucket |-> "humming", acrid |-> "a1", title |-> AcrTitle,
     artist |-> AcrArtist, spynners_track_id |-> 0, producer_id |-> ""]

\* A JSON object body: has_status FALSE when the body has no "status" member
Body(has_status, code, custom_files, music, humming) ==
    [json |-> TRUE, has_status |-> has_status, code |-> code,
     custom_files |-> custom_files, music |-> music, humming |-> humming]

NotJson ==
    [json |-> FALSE, has_status |-> FALSE, code |-> 0,
     custom_files |-> <<>>, music |-> <<>>, humming |-> <<>>]

Http(status, body) == [kind |-> "http", status |-> status, body |-> body]
Raised(what) == [kind |-> what, status |-> 0, body |-> NotJson]

NoReply == [kind |-> "none", status |-> 0, body |-> NotJson]

\* What client.post can do: raise (timeout, connection error) or return a
\* response of any status; response.json() raises on a body that is not JSON
FingerprintReplies ==
    { Raised("timeout"), Raised("connect_error"),
      Http(502, NotJson),
      Http(502, Body(FALSE, 0, <<>>, <<>>, <<>>)),
      Http(403, Body(TRUE, 3001, <<>>, <<>>, <<>>)),
      Http(200, NotJson),
      Http(200, Body(TRUE, 1001, <<>>, <<>>, <<>>)),
      Http(200, Body(TRUE, 0, <<>>, <<>>, <<>>)),
      Http(200, Body(TRUE, 0, <<>>, <<>>, <<HummingTrack>>)),
      Http(200, Body(TRUE, 0, <<CustomTrack(1)>>, <<MusicTrack("a1")>>, <<>>)),
      Http(200, Body(TRUE, 0, <<CustomTrack(0)>>, <<>>, <<>>)),
      Http(200, Body(TRUE, 0, <<>>, <<MusicTrack("a1")>>, <<HummingTrack>>)),
      Http(200, Body(TRUE, 0, <<>>, <<MusicTrack("")>>, <<>>)) }

\* result.get("status", {}).get("code", -1)
status_code(body) == IF body.has_status THEN body.code ELSE -1

\* music is consulted before custom_files
PickTrackMusicFirst(body) ==
    IF body.music # <<>> THEN body.music[1]
    ELSE IF body.custom_files # <<>> THEN body.custom_files[1]
    ELSE NoTrack

\* recognize_audio: custom_files first, then music
PickTrack(body) ==
    IF body.custom_files # <<>> THEN body.custom_files[1]
    ELSE IF body.music # <<>> THEN body.music[1]
    ELSE NoTrack

\* is_custom is never set
is_custom_never(t) == FALSE

\* line 362: is_custom is set for a candidate from custom_files
is_custom(t) == t.bucket = "custom_files"

---------------------------------------------------------------------------
(* The catalog service and the history store *)

Entry(id, acrcloud_id, producer_id, title, producer_name) ==
    [id |-> id, acrcloud_id |-> acrcloud_id, producer_id |-> producer_id,
     title |-> title, producer_name |-> producer_name]

NoEntry == Entry(0, "", "", <<>>, <<>>)

\* all_tracks before and after the fetch of line 503 succeeded
NotFetched == [fetched |-> FALSE, tracks |-> <<>>]
Fetched(tracks) == [fetched |-> TRUE, tracks |-> tracks]

\* Titles by what they score against the candidate title "a":
\* the same after normalisation (2.0), 0.25 + 0.2 = 0.45, 2/9 + 0.2 < 0.45,
\* nothing in common (0)
TitleSameNormalized == <<"A", " ", "(", "b", ")">>
TitleAtThreshold == <<"a", "b", "b", "b", "b", "b", "b">>
TitleBelowThreshold == <<"a", "b", "b", "b", "b", "b", "b", "b">>
TitleUnrelated == <<"z", "z">>

EntryKinds(id) ==
    { Entry(id, "a1", "p1", TitleSameNormalized, <<"b">>),
      Entry(id, "",   "p1", TitleAtThreshold,    <<>>),
      Entry(id, "",   "",   TitleBelowThreshold, <<>>),
      Entry(id, "",   "",   <<>>,                <<"u">>),
      Entry(id, "a2", "",   TitleUnrelated,      <<>>),
      Entry(id, "",   "p1", AcrTitle,            <<"b">>) }

RECURSIVE CatalogsOfLen(_)
CatalogsOfLen(n) ==
    IF n = 0 THEN { <<>> }
    ELSE { Append(c, e) : c \in CatalogsOfLen(n - 1), e \in EntryKinds(n) }

Catalogs == UNION { CatalogsOfLen(n) : n \in 0..MaxCatalog }

\* How a request to the catalog, the user store or the history store ends
CallOutcomes == {"ok", "http_error", "exception"}

RECURSIVE FirstWith(_, _, _)
FirstWith(c, i, acrid) ==
    IF i > Len(c) THEN NoEntry
    ELSE IF c[i].acrcloud_id = acrid THEN c[i]
    ELSE FirstWith(c, i + 1, acrid)

\* GET /entities/Track?acrcloud_id=...&limit=1, then tracks[0] when non-empty
LookupByAcrId(c, acrid) == FirstWith(c, 1, acrid)

\* GET /entities/Track?limit=500
FetchAll(c) == SubSeq(c, 1, Min(Len(c), CatalogFetchLimit))

\* GET /entities/Track/{id}
EntityById(c, id) == IF id \in 1..Len(c) THEN c[id] ELSE NoEntry

\* the PUT replaces the entity by its body
PutReplacingEntity(c, id, acrid) ==
    [i \in 1..Len(c) |-> IF c[i].id = id THEN Entry(id, acrid, "", <<>>, <<>>)
                         ELSE c[i]]

\* PUT /entities/Track/{id} {"acrcloud_id": acr_id}
PutAcrId(c, id, acrid) ==
    [i \in 1..Len(c) |-> IF c[i].id = id THEN [c[i] EXCEPT !.acrcloud_id = acrid]
                         ELSE c[i]]

\* GET /entities/User/{producer_id} -> email
EmailOf(producer_id) == IF producer_id = "p1" THEN "p1@mail" ELSE ""

\* the similarity test is made last and overrides the containment
artist_bonus_similarity_last(clean_artist, t_producer_norm) ==
    IF clean_artist # <<>> /\ t_producer_norm # <<>>
    THEN IF Greater(similarity_score(clean_artist, t_producer_norm),
                    [num |-> 1, den |-> 2]) THEN 20
         ELSE IF Contains(clean_artist, t_producer_norm)
                 \/ Contains(t_producer_norm, clean_artist) THEN 30
         ELSE 0
    ELSE 0

\* lines 527-535, in hundredths
artist_bonus(clean_artist, t_producer_norm) ==
    IF clean_artist # <<>> /\ t_producer_norm # <<>>
    THEN IF Contains(clean_artist, t_producer_norm)
            \/ Contains(t_producer_norm, clean_artist) THEN 30
         ELSE IF Greater(similarity_score(clean_artist, t_producer_norm),
                         [num |-> 1, den |-> 2]) THEN 20
         ELSE 0
    ELSE 0

\* lines 537-540, in hundredths
contains_bonus(clean_title, t_title_norm) ==
    IF Contains(clean_title, t_title_norm) \/ Contains(t_title_norm, clean_title)
    THEN 20 ELSE 0

\* lines 551-558, in hundredths
remix_bonus(clean_title, t_title_norm) ==
    LET remix == <<"r", "e", "m", "i", "x">> IN
    IF (Contains(remix, clean_title) \/ Contains(remix, t_title_norm))
       /\ \E word \in Words(clean_title) : Len(word) > 3 /\ Contains(word, t_title_norm)
    THEN 15 ELSE 0

\* lines 516-561: title_score + artist_bonus + contains_bonus + word_bonus
\* + remix_bonus
FactorSum(clean_title, clean_artist, t_title_norm, t_producer_norm) ==
    LET title_score == similarity_score(clean_title, t_title_norm)
        common_words == Cardinality(Words(clean_title) \cap Words(t_title_norm))
        most_words == IF common_words = 0 THEN 1
                      ELSE IF Cardinality(Words(clean_title))
                                > Cardinality(Words(t_title_norm))
                      THEN Cardinality(Words(clean_title))
                      ELSE Cardinality(Words(t_title_norm))
        bonuses == artist_bonus(clean_artist, t_producer_norm)
                     + contains_bonus(clean_title, t_title_norm)
                     + remix_bonus(clean_title, t_title_norm)
    IN [num |-> title_score.num * 100 * most_words
                  + bonuses * title_score.den * most_words
                  + 30 * common_words * title_score.den,
        den |-> 100 * title_score.den * most_words]

\* the same normalized title scores like any other title
total_score_unforced(cand, t) ==
    FactorSum(normalize_title(cand.title), normalize_title(cand.artist),
              normalize_title(t.title), normalize_title(t.producer_name))

\* lines 516-565: the sum of the factors, and 2.0 for the same normalized
\* title
total_score(cand, t) ==
    IF normalize_title(t.title) = normalize_title(cand.title)
    THEN [num |-> 2, den |-> 1]
    ELSE FactorSum(normalize_title(cand.title), normalize_title(cand.artist),
                   normalize_title(t.title), normalize_title(t.producer_name))

RECURSIVE Scan(_, _, _, _, _)
RECURSIVE ScanKeepingLast(_, _, _, _, _)

\* an entry replaces the best one when it scores at least as much
ScanKeepingLast(cand, tracks, i, best_match, best_score) ==
    IF i > Len(tracks)
    THEN [best_match |-> best_match, best_score |-> best_score]
    ELSE LET t == tracks[i] IN
         IF t.title = <<>> THEN ScanKeepingLast(cand, tracks, i + 1, best_match, best_score)
         ELSE IF ~Greater(best_score, total_score(cand, t))
              THEN ScanKeepingLast(cand, tracks, i + 1, t, total_score(cand, t))
              ELSE ScanKeepingLast(cand, tracks, i + 1, best_match, best_score)

\* lines 512-573: the scan of the fetched tracks: best_match, best_score
Scan(cand, tracks, i, best_match, best_score) ==
    IF i > Len(tracks)
    THEN [best_match |-> best_match, best_score |-> best_score]
    ELSE LET t == tracks[i] IN
         IF t.title = <<>> THEN Scan(cand, tracks, i + 1, best_match, best_score)
         ELSE IF Greater(total_score(cand, t), best_score)
              THEN Scan(cand, tracks, i + 1, t, total_score(cand, t))
              ELSE Scan(cand, tracks, i + 1, best_match, best_score)

\* the best match is accepted only above the threshold
FuzzyMatchAbove(cand, tracks) ==
    LET r == Scan(cand, tracks, 1, NoEntry, [num |-> 0, den |-> 1]) IN
    IF r.best_match # NoEntry /\ AtLeast(r.best_score, FuzzyThreshold + 1)
    THEN r.best_match ELSE NoEntry

\* line 576: accept the best match when its score reaches the threshold
FuzzyMatch(cand, tracks) ==
    LET r == Scan(cand, tracks, 1, NoEntry, [num |-> 0, den |-> 1]) IN
    IF r.best_match # NoEntry /\ AtLeast(r.best_score, FuzzyThreshold)
    THEN r.best_match ELSE NoEntry

---------------------------------------------------------------------------
(* Responses *)

NoResult == [success |-> FALSE]
NoResponse == [status |-> 0, body |-> [pending |-> TRUE]]

\* raise HTTPException(status_code=status, detail=f"{prefix}: {str(e)}")
HttpError(status, prefix, error) ==
    [status |-> status, body |-> [detail |-> [prefix |-> prefix, error |-> error]]]

Ok200(body) == [status |-> 200, body |-> body]

\* lines 673-678; status is result.get("status", {})
NotRecognizedBody(body) ==
    [success |-> FALSE, message |-> "Could not identify the track",
     status |-> [present |-> body.has_status, code |-> body.code]]

diamondVars == <<diamond_awards, black_diamonds, utc_date, award_calls>>
otherVars == <<concat_list, now, form, diamondVars>>
inputVars == <<op, configured, authorization, request_audio, output_format, segments,
               inflight>>
reqVars == <<inputVars, otherVars>>
batchVars == <<recordings, results, identified_tracks, idx, is_valid_venue, item_env>>
matchVars == <<track, search_raised, all_tracks, spynners_track, recognition_result>>

---------------------------------------------------------------------------
(* recognize_audio *)

\* the credentials are never looked at
CredentialsMissingIgnored(c) == FALSE

\* line 204: not ACRCLOUD_ACCESS_KEY or not ACRCLOUD_ACCESS_SECRET
CredentialsMissing(c) == ~c

\* lines 204-208: credentials missing
RejectUnconfigured ==
    /\ op = "recognize" /\ pc = "Received"
    /\ CredentialsMissing(configured)
    /\ response' = HttpError(503, "ACRCloud not configured", "")
    /\ pc' = "ConfigError"
    /\ UNCHANGED <<reqVars, batchVars, matchVars, audio_data, fmt, files, tool,
                   calls, steps, submitted, reply, catalog, history>>

\* lines 210-240: decode the sample and detect its format
DetectFormat ==
    /\ op = "recognize" /\ pc = "Received"
    /\ ~CredentialsMissing(configured)
    /\ IF request_audio = BadBase64
       THEN /\ response' = HttpError(500, "Recognition failed", "Incorrect padding")
            /\ pc' = "IdentifyFailed"
            /\ UNCHANGED <<audio_data, fmt, steps>>
       ELSE /\ audio_data' = request_audio
            /\ fmt' = detect(request_audio)
            /\ steps' = Append(steps, "format-detect")
            /\ pc' = "FormatDetected"
            /\ UNCHANGED response
    /\ UNCHANGED <<reqVars, batchVars, matchVars, files, tool, calls, submitted,
                   reply, catalog, history>>

\* lines 282-307: the temporary files the identify-time transcode removes
IdentifyCleanup(o) ==
    IF o.raised THEN {InputPath, OutputPath}
    ELSE IF o.rc = 0 /\ o.output THEN {InputPath, OutputPath}
    ELSE {InputPath}

\* the format is switched to WAV whatever the tool did
TranscodedSampleAlwaysWav(o, data, f) ==
    [data |-> IF ToolSucceeded(o) THEN ConvertedWav ELSE data,
     fmt |-> [format |-> "audio/wav", extension |-> "wav",
              needs_conversion |-> f.needs_conversion]]

\* lines 275-280: the transcoder's output replaces the sample only on success
TranscodedSample(o, data, f) ==
    IF ToolSucceeded(o)
    THEN [data |-> ConvertedWav,
          fmt |-> [format |-> "audio/wav", extension |-> "wav",
                   needs_conversion |-> f.needs_conversion]]
    ELSE [data |-> data, fmt |-> f]

\* lines 243-307: convert webm/m4a/ogg to WAV with the tool
Transcode ==
    /\ op = "recognize" /\ pc = "FormatDetected"
    /\ fmt.needs_conversion
    /\ \E o \in ToolOutcomes :
        LET s == TranscodedSample(o, audio_data, fmt) IN
        /\ tool' = o
        /\ files' = (files \cup {InputPath} \cup ToolCreates(o, OutputPath))
                        \ IdentifyCleanup(o)
        /\ audio_data' = s.data
        /\ fmt' = s.fmt
        /\ pc' = IF ToolSucceeded(o) THEN "Transcoded" ELSE "SkipTranscode"
    /\ steps' = Append(steps, "transcode")
    /\ UNCHANGED <<reqVars, batchVars, matchVars, calls, submitted, reply,
                   response, catalog, history>>

\* line 243, needs_conversion False
SkipTranscode ==
    /\ op = "recognize" /\ pc = "FormatDetected"
    /\ ~fmt.needs_conversion
    /\ pc' = "SkipTranscode"
    /\ UNCHANGED <<reqVars, batchVars, matchVars, audio_data, fmt, files, tool,
                   calls, steps, submitted, reply, response, catalog, history>>

\* a clean non-match is raised as a failure
ParseFailsOnNoMatch(r) ==
    IF r.kind # "http" THEN "failed"
    ELSE IF ~r.body.json THEN "failed"
    ELSE IF status_code(r.body) = 0 /\ PickTrack(r.body) # NoTrack THEN "track"
    ELSE "failed"

\* lines 347-368 and 673-682: what the handler makes of the service's answer
\* "failed": the except clause of line 680; "none": not recognized;
\* "track": a candidate
Parse(r) ==
    IF r.kind # "http" THEN "failed"
    ELSE IF ~r.body.json THEN "failed"
    ELSE IF status_code(r.body) = 0 /\ PickTrack(r.body) # NoTrack THEN "track"
    ELSE "none"

\* lines 309-368: sign, submit the sample, parse the answer
Identify ==
    /\ op = "recognize" /\ pc \in {"Transcoded", "SkipTranscode"}
    /\ \E r \in FingerprintReplies :
        /\ reply' = r
        /\ CASE Parse(r) = "failed" ->
                  /\ response' = HttpError(500, "Recognition failed", r.kind)
                  /\ pc' = "IdentifyFailed"
                  /\ UNCHANGED track
             [] Parse(r) = "none" ->
                  /\ response' = Ok200(NotRecognizedBody(r.body))
                  /\ pc' = "NotRecognized"
                  /\ UNCHANGED track
             [] Parse(r) = "track" ->
                  /\ track' = PickTrack(r.body)
                  /\ pc' = "Identified"
                  /\ UNCHANGED response
    /\ submitted' = [data |-> audio_data, format |-> fmt.format,
                     extension |-> fmt.extension]
    /\ form' = FormData(now, configured)
    /\ calls' = Append(calls, "identify")
    /\ steps' = Append(steps, "identify")
    /\ UNCHANGED <<op, configured, authorization, request_audio, output_format,
                   segments, inflight, concat_list, now, diamondVars, batchVars,
                   search_raised, all_tracks, spynners_track,
                   recognition_result, audio_data, fmt, files, tool, catalog, history>>

\* lines 426-446: the result of a direct match
DirectResult(t, producer_id, producer_email) ==
    [success |-> TRUE, title |-> t.title,
     spynners_track_id |-> t.spynners_track_id,
     producer_id |-> producer_id, producer_email |-> producer_email,
     acrcloud_id |-> t.acrid, is_spynners_track |-> TRUE]

\* lines 631-653: the result of the catalog-matcher path
MatchResult(t, sp, producer_email) ==
    [success |-> TRUE,
     title |-> IF sp # NoEntry THEN sp.title ELSE t.title,
     spynners_track_id |-> sp.id,
     producer_id |-> sp.producer_id, producer_email |-> producer_email,
     acrcloud_id |-> t.acrid]

\* line 383: the candidate came from custom_files
DirectMatch ==
    /\ op = "recognize" /\ pc = "Identified"
    /\ is_custom(track)
    /\ pc' = "DirectMatch"
    /\ UNCHANGED <<reqVars, batchVars, matchVars, audio_data, fmt, files, tool,
                   calls, steps, submitted, reply, response, catalog, history>>

\* lines 393-446: fetch the track's details and the producer's email, build
\* the result
EnrichDirect ==
    /\ op = "recognize" /\ pc = "DirectMatch"
    /\ LET sid == track.spynners_track_id
           ent == EntityById(catalog, sid) IN
       \E tro \in (IF sid # 0 THEN CallOutcomes ELSE {"skipped"}) :
         LET got == tro = "ok" /\ ent # NoEntry
             producer_id == IF got THEN ent.producer_id ELSE "" IN
         \E uo \in (IF got /\ producer_id # "" THEN CallOutcomes ELSE {"skipped"}) :
           /\ calls' = calls \o (IF sid # 0 THEN <<"track_get">> ELSE <<>>)
                             \o (IF uo # "skipped" THEN <<"user_get">> ELSE <<>>)
           /\ recognition_result' =
                 DirectResult(track, producer_id,
                              IF uo = "ok" THEN EmailOf(producer_id) ELSE "")
    /\ steps' = Append(steps, "enrich")
    /\ pc' = "Enriched"
    /\ UNCHANGED <<reqVars, batchVars, track, search_raised, all_tracks,
                   spynners_track, audio_data, fmt, files, tool, submitted, reply,
                   response, catalog, history>>

\* lines 485-498: search the catalog by acrcloud_id
CatalogLookup ==
    /\ op = "recognize" /\ pc = "Identified"
    /\ ~is_custom(track)
    /\ \E lo \in (IF track.acrid # "" THEN CallOutcomes ELSE {"skipped"}) :
        /\ calls' = IF lo # "skipped" THEN Append(calls, "catalog_by_id") ELSE calls
        /\ spynners_track' = IF lo = "ok" THEN LookupByAcrId(catalog, track.acrid)
                             ELSE NoEntry
        /\ search_raised' = (lo = "exception")
    /\ steps' = Append(steps, "match")
    /\ pc' = "LookupDone"
    /\ UNCHANGED <<reqVars, batchVars, track, all_tracks, recognition_result,
                   audio_data, fmt, files, tool, submitted, reply, response,
                   catalog, history>>

\* the fuzzy scan without its "if not spynners_track" test
NeedsFuzzyScanAlways == ~search_raised

\* line 501: the fuzzy scan runs when the search block is still running and
\* spynners_track is not set
NeedsFuzzyScan == ~search_raised /\ spynners_track = NoEntry

\* lines 500-580: fetch up to 500 tracks and keep the best-scoring one
FuzzyScan ==
    /\ op = "recognize" /\ pc = "LookupDone"
    /\ \E fo \in (IF NeedsFuzzyScan THEN CallOutcomes ELSE {"skipped"}) :
        /\ calls' = IF fo # "skipped" THEN Append(calls, "catalog_fetch_500")
                    ELSE calls
        /\ all_tracks' = IF fo = "ok" THEN Fetched(FetchAll(catalog)) ELSE all_tracks
        /\ spynners_track' = IF fo = "ok" THEN FuzzyMatch(track, FetchAll(catalog))
                             ELSE spynners_track
        /\ search_raised' = (search_raised \/ fo = "exception")
    /\ pc' = "FuzzyMatchAttempted"
    /\ UNCHANGED <<reqVars, batchVars, track, recognition_result, audio_data, fmt,
                   files, tool, steps, submitted, reply, response, catalog, history>>

\* the write-back is made for every catalog entry
NeedsWriteBackAlways(t, sp) == sp # NoEntry

\* line 591: the write-back is due
NeedsWriteBack(t, sp) == sp # NoEntry /\ t.acrid # "" /\ sp.acrcloud_id = ""

\* lines 582-653: write the acrcloud_id back, fetch the producer's email,
\* build the result
Enrich ==
    /\ op = "recognize" /\ pc = "FuzzyMatchAttempted"
    /\ \E po \in (IF NeedsWriteBack(track, spynners_track)
                  THEN CallOutcomes ELSE {"skipped"}),
          uo \in (IF spynners_track # NoEntry /\ spynners_track.producer_id # ""
                  THEN CallOutcomes ELSE {"skipped"}) :
        /\ calls' = calls \o (IF po # "skipped" THEN <<"catalog_put">> ELSE <<>>)
                          \o (IF uo # "skipped" THEN <<"user_get">> ELSE <<>>)
        /\ catalog' = IF po = "ok"
                      THEN PutAcrId(catalog, spynners_track.id, track.acrid)
                      ELSE catalog
        /\ recognition_result' =
              MatchResult(track, spynners_track,
                          IF uo = "ok" THEN EmailOf(spynners_track.producer_id)
                          ELSE "")
    /\ steps' = Append(steps, "enrich")
    /\ pc' = "Enriched"
    /\ UNCHANGED <<reqVars, batchVars, track, search_raised, all_tracks,
                   spynners_track, audio_data, fmt, files, tool, submitted, reply,
                   response, history>>

\* lines 450 and 659: the history write is reached on the catalog-matcher
\* path only, and only with an Authorization header
ReachesHistoryWrite(t, auth) == ~is_custom(t) /\ auth # NoAuth

\* an exception of the history write reaches the handler's except clause
PersistOutcomeBubbles(ho) == IF ho = "exception" THEN "IdentifyFailed" ELSE "Persisted"

\* lines 668-669: an exception of the history write is swallowed
PersistOutcome(ho) == "Persisted"

\* lines 658-669: save the result to the history
Persist ==
    /\ op = "recognize" /\ pc = "Enriched"
    /\ ReachesHistoryWrite(track, authorization)
    /\ LET user_id == token_user(authorization) IN
       \E ho \in (IF user_id # "raise" THEN {"ok", "exception"} ELSE {"skipped"}) :
         /\ calls' = IF ho # "skipped" THEN Append(calls, "history_insert")
                     ELSE calls
         /\ history' = IF ho = "ok"
                       THEN Append(history, [user_id |-> user_id,
                                             result |-> recognition_result])
                       ELSE history
         /\ pc' = PersistOutcome(ho)
    /\ steps' = Append(steps, "persist")
    /\ UNCHANGED <<reqVars, batchVars, matchVars, audio_data, fmt, files, tool,
                   submitted, reply, response, catalog>>

\* lines 450 and 671: return recognition_result
Return ==
    /\ op = "recognize"
    /\ \/ pc = "Persisted"
       \/ pc = "Enriched" /\ ~ReachesHistoryWrite(track, authorization)
    /\ response' = Ok200(recognition_result)
    /\ pc' = "Returned"
    /\ UNCHANGED <<reqVars, batchVars, matchVars, audio_data, fmt, files, tool,
                   calls, steps, submitted, reply, catalog, history>>

---------------------------------------------------------------------------
(* convert_audio *)

OutputFormats == {"mp3", "wav"}

\* lines 706-717: the input extension, default m4a
input_extension(buf) ==
    IF Slice(buf, 0, 4) = <<"R", "I", "F", "F">> THEN "wav"
    ELSE IF Slice(buf, 0, 4) = <<"1A", "E", "DF", "A3">> THEN "webm"
    ELSE IF Slice(buf, 0, 4) = <<"f", "t", "y", "p">>
            \/ Slice(buf, 4, 8) = <<"f", "t", "y", "p">> THEN "m4a"
    ELSE IF Slice(buf, 0, 3) = <<"I", "D", "3">> \/ Slice(buf, 0, 2) = <<"FF", "FB">>
    THEN "mp3"
    ELSE IF Slice(buf, 0, 4) = <<"O", "g", "g", "S">> THEN "ogg"
    ELSE "m4a"

\* line 726: input_path with the extension replaced
ConvertOutputPath(ext, out_fmt) == IF ext = out_fmt THEN InputPath ELSE OutputPath

\* lines 773-780: the finally clause removes the input and the output file
ConvertCleanup(out) == {InputPath, out}

\* lines 752-784: the response for a tool outcome
ConvertResponse(o, out_fmt, e) ==
    IF o.raised THEN HttpError(500, "Conversion failed", e)
    ELSE IF o.rc = 0 /\ o.output
    THEN Ok200([success |-> TRUE, format |-> out_fmt])
    ELSE Ok200([success |-> FALSE,
                message |-> [prefix |-> "Conversion failed", error |-> e]])

\* lines 691-784
ConvertAudio ==
    /\ op = "convert" /\ pc = "Received"
    /\ IF request_audio = BadBase64
       THEN /\ response' = HttpError(500, "Conversion failed",
                                      Msg("Incorrect padding", {}))
            /\ UNCHANGED <<files, tool>>
       ELSE \E o \in ToolOutcomes :
              LET out == ConvertOutputPath(input_extension(request_audio),
                                           output_format) IN
              /\ tool' = o
              /\ files' = (files \cup {InputPath} \cup ToolCreates(o, out))
                              \ ConvertCleanup(out)
              /\ \E e \in ToolMessages(o, {InputPath, out}) :
                    response' = ConvertResponse(o, output_format, e)
    /\ fmt' = IF request_audio = BadBase64 THEN fmt
              ELSE [fmt EXCEPT !.extension = input_extension(request_audio)]
    /\ pc' = "Returned"
    /\ UNCHANGED <<reqVars, batchVars, matchVars, audio_data, calls, steps,
                   submitted, reply, catalog, history>>

---------------------------------------------------------------------------
(* concatenate_audio *)

SegmentKinds == {"segment-a", "segment-b", "bad-padding"}

RECURSIVE SeqsOfLen(_, _)
SeqsOfLen(S, n) ==
    IF n = 0 THEN { <<>> }
    ELSE { Append(q, x) : q \in SeqsOfLen(S, n - 1), x \in S }

SeqsUpTo(S, n) == UNION { SeqsOfLen(S, k) : k \in 0..n }

\* lines 816-823: the segments saved before a segment fails to decode
RECURSIVE Saved(_, _)
Saved(segs, i) ==
    IF i > Len(segs) \/ segs[i] = "bad-padding" THEN i - 1
    ELSE Saved(segs, i + 1)

\* the first segment is left out of the list
segment_paths_after_first(segs) ==
    [i \in 1..(Len(segs) - 1) |-> [file |-> SegmentPath(i + 1), data |-> segs[i + 1]]]

\* lines 816-830: segment_paths, one per segment in the order of the request;
\* data is what was written to the file
segment_paths(segs) ==
    [i \in 1..Len(segs) |-> [file |-> SegmentPath(i), data |-> segs[i]]]

\* lines 867-873: shutil.rmtree(temp_dir)
ConcatCleanup(fs) == { f \in fs : f.dir = "temp_dir" }

\* a tool failure is raised like an exception
ConcatResponseRaising(o, out_fmt, n, e) ==
    IF o.rc = 0 /\ o.output /\ ~o.raised
    THEN Ok200([success |-> TRUE, format |-> out_fmt, segments_count |-> n])
    ELSE HttpError(500, "Concatenation failed", e)

\* lines 845-877: the response for a tool outcome
ConcatResponse(o, out_fmt, n, e) ==
    IF o.raised THEN HttpError(500, "Concatenation failed", e)
    ELSE IF o.rc = 0 /\ o.output
    THEN Ok200([success |-> TRUE, format |-> out_fmt, segments_count |-> n])
    ELSE Ok200([success |-> FALSE,
                message |-> [prefix |-> "Concatenation failed", error |-> e]])

\* lines 791-877
ConcatenateAudio ==
    /\ op = "concat" /\ pc = "Received"
    /\ IF segments = <<>>
       THEN /\ response' = Ok200([success |-> FALSE,
                                  message |-> [prefix |-> "No audio segments provided",
                                               error |-> Msg("", {})]])
            /\ UNCHANGED <<files, tool, concat_list>>
       ELSE LET n == Saved(segments, 1)
                written == {TempDir} \cup { SegmentPath(i) : i \in 1..n } IN
            IF n < Len(segments)
            THEN /\ response' = HttpError(500, "Concatenation failed",
                                          Msg("Incorrect padding", {}))
                 /\ files' = (files \cup written) \ ConcatCleanup(files \cup written)
                 /\ UNCHANGED <<tool, concat_list>>
            ELSE \E o \in ToolOutcomes :
                   LET all == files \cup written \cup {ConcatFilePath}
                                 \cup ToolCreates(o, ConcatOutputPath) IN
                   /\ concat_list' = segment_paths(segments)
                   /\ tool' = o
                   /\ files' = all \ ConcatCleanup(all)
                   /\ \E e \in ToolMessages(o, {ConcatFilePath, ConcatOutputPath}) :
                         response' = ConcatResponse(o, output_format,
                                                    Len(segments), e)
    /\ pc' = "Returned"
    /\ UNCHANGED <<op, configured, authorization, request_audio, output_format,
                   segments, inflight, now, form, diamondVars, batchVars, matchVars,
                   audio_data,
                   fmt, calls, steps,
                   submitted, reply, catalog, history>>

---------------------------------------------------------------------------
(* Specification of recognize_audio, convert_audio and concatenate_audio *)

InitLocals ==
    /\ pc = "Received"
    /\ audio_data = <<>> /\ fmt = NoFmt
    /\ files = {} /\ tool = NoTool
    /\ calls = <<>> /\ steps = <<>>
    /\ submitted = [data |-> <<>>, format |-> "", extension |-> ""]
    /\ reply = NoReply
    /\ track = NoTrack /\ search_raised = FALSE /\ spynners_track = NoEntry
    /\ all_tracks = NotFetched
    /\ recognition_result = NoResult
    /\ response = NoResponse
    /\ history = <<>>
    /\ results = <<>> /\ identified_tracks = <<>> /\ item_env = <<>>
    /\ idx = 1
    /\ concat_list = <<>>
    /\ now = 0 /\ form = NoForm
    /\ diamond_awards = <<>> /\ black_diamonds = 0 /\ utc_date = 0
    /\ award_calls = <<>>

InitRecognize ==
    /\ inflight = <<>>
    /\ op = "recognize"
    /\ configured \in BOOLEAN
    /\ authorization \in Authorizations
    /\ request_audio \in AudioSamples
    /\ catalog \in Catalogs
    /\ output_format = "" /\ segments = <<>> /\ recordings = <<>>
    /\ is_valid_venue = FALSE

InitConvert ==
    /\ inflight = <<>>
    /\ op = "convert"
    /\ configured = TRUE /\ authorization = NoAuth
    /\ request_audio \in AudioSamples
    /\ output_format \in OutputFormats
    /\ catalog = <<>> /\ segments = <<>> /\ recordings = <<>>
    /\ is_valid_venue = FALSE

InitConcat ==
    /\ inflight = <<>>
    /\ op = "concat"
    /\ configured = TRUE /\ authorization = NoAuth
    /\ request_audio = <<>>
    /\ output_format = "m4a"
    /\ segments \in SeqsUpTo(SegmentKinds, MaxSegments)
    /\ catalog = <<>> /\ recordings = <<>>
    /\ is_valid_venue = FALSE

Init == InitLocals /\ (InitRecognize \/ InitConvert \/ InitConcat)

Next ==
    \/ RejectUnconfigured
    \/ DetectFormat
    \/ Transcode
    \/ SkipTranscode
    \/ Identify
    \/ DirectMatch
    \/ EnrichDirect
    \/ CatalogLookup
    \/ FuzzyScan
    \/ Enrich
    \/ Persist
    \/ Return
    \/ ConvertAudio
    \/ ConcatenateAudio

Spec == Init /\ [][Next]_vars

---------------------------------------------------------------------------
(* process_offline_session *)

RecordingKinds == {"sample", "bad-padding"}

Recording(audio, timestamp) == [audioBase64 |-> audio, timestamp |-> timestamp]

RecordingLists ==
    { [i \in 1..Len(q) |-> Recording(q[i], i)] :
        q \in SeqsUpTo(RecordingKinds, MaxRecordings) }

\* track.get("spynners_track_id") of a custom_files entry: 0 stands for a
\* missing member (None), EmptyId for a member that is there and empty ("")
EmptyId == -1

BatchReplies ==
    { Raised("timeout"),
      Http(200, Body(TRUE, 0, <<CustomTrack(EmptyId)>>, <<>>, <<>>)),
      Http(200, Body(TRUE, 1001, <<>>, <<>>, <<>>)),
      Http(200, Body(TRUE, 0, <<>>, <<>>, <<>>)),
      Http(200, Body(TRUE, 0, <<CustomTrack(1)>>, <<MusicTrack("a1")>>, <<>>)),
      Http(200, Body(TRUE, 0, <<>>, <<MusicTrack("a1")>>, <<HummingTrack>>)),
      Http(200, Body(TRUE, 0, <<>>, <<>>, <<HummingTrack>>)) }

\* Entries by their combined score against the candidate "a" by "u":
\* 0.7 * 1 + 0 (the title is the same but for the case),
\* 0.7 * 0.5 + 0.3 * 0.5 = 0.5,
\* 0.7 * 0.25 + 0 (0.45 for the matcher of recognize_audio),
\* 0.7 * 2/3 + 0.3 * 1
OfflineLinked(id) == Entry(id, "", "p1", <<"A">>, <<>>)
OfflineAtThreshold(id) == Entry(id, "", "", <<"a", "b", "b">>, <<"U", "v", "v">>)
OfflineEntryKinds(id) ==
    { OfflineLinked(id),
      OfflineAtThreshold(id),
      Entry(id, "", "p1", TitleAtThreshold, <<>>),
      Entry(id, "", "p1", <<"a", "!">>, <<"u">>) }

\* the catalogs of the batch runs: an entry that is not linked, then one
\* that is, and so on
BatchCatalogs ==
    { [i \in 1..n |-> IF i % 2 = 1 THEN OfflineAtThreshold(i) ELSE OfflineLinked(i)] :
        n \in 0..MaxCatalog }

\* lines 2129-2138: custom_files first, then music, then humming
\* The service identifies nothing for a request signed without credentials
BatchRepliesFor(c) ==
    IF c THEN BatchReplies
    ELSE { r \in BatchReplies : r.kind # "http" \/ status_code(r.body) # 0 }

PickTrackOffline(body) ==
    IF body.custom_files # <<>> THEN body.custom_files[1]
    ELSE IF body.music # <<>> THEN body.music[1]
    ELSE IF body.humming # <<>> THEN body.humming[1]
    ELSE NoTrack

\* title and artist weigh the same
combined_score_even_weights(track_title, track_artist, db_track) ==
    LET title_ratio == similarity_score(lower(db_track.title), lower(track_title))
        artist_ratio == similarity_score(lower(db_track.producer_name),
                                         lower(track_artist))
    IN [num |-> 5 * title_ratio.num * artist_ratio.den
                  + 5 * artist_ratio.num * title_ratio.den,
        den |-> 10 * title_ratio.den * artist_ratio.den]

\* lines 2195-2206: title_ratio * 0.7 + artist_ratio * 0.3, on the
\* lowercased title and producer name
combined_score(track_title, track_artist, db_track) ==
    LET title_ratio == similarity_score(lower(db_track.title), lower(track_title))
        artist_ratio == similarity_score(lower(db_track.producer_name),
                                         lower(track_artist))
    IN [num |-> 7 * title_ratio.num * artist_ratio.den
                  + 3 * artist_ratio.num * title_ratio.den,
        den |-> 10 * title_ratio.den * artist_ratio.den]

\* lines 2191-2210: the best entry among those scoring above the threshold
RECURSIVE OfflineScan(_, _, _, _, _, _)
OfflineScan(track_title, track_artist, tracks, i, best_match, best_score) ==
    IF i > Len(tracks) THEN best_match
    ELSE LET t == tracks[i]
             score == combined_score(track_title, track_artist, t)
         IN IF Greater(score, best_score)
               /\ score.num * 1000 > OfflineThreshold * score.den
            THEN OfflineScan(track_title, track_artist, tracks, i + 1, t, score)
            ELSE OfflineScan(track_title, track_artist, tracks, i + 1, best_match,
                             best_score)

\* lines 2167-2224: the catalog entry linked to a candidate that is not custom
OfflineMatch(t, c, fo) ==
    IF fo = "ok"
    THEN OfflineScan(t.title, t.artist, FetchAll(c), 1, NoEntry, [num |-> 0, den |-> 1])
    ELSE NoEntry

FailedItem(message, timestamp) ==
    [success |-> FALSE, message |-> message, timestamp |-> timestamp]

\* lines 2142-2236: the entry of a recording with a candidate
TrackResult(t, c, fo, timestamp) ==
    LET best == IF is_custom(t) THEN NoEntry ELSE OfflineMatch(t, c, fo)
        custom == is_custom(t) \/ best # NoEntry
        spynners_track_id == IF is_custom(t) THEN t.spynners_track_id ELSE best.id
        producer_id == IF is_custom(t) THEN t.producer_id ELSE best.producer_id
    IN [success |-> TRUE, title |-> t.title,
        spynners_track_id |-> spynners_track_id, producer_id |-> producer_id,
        timestamp |-> timestamp,
        is_spynners_track |-> (custom /\ spynners_track_id # 0),
        source |-> t.bucket]

\* lines 2071-2256: the body of the try block for one recording; raised when
\* an exception leaves it
RecordingOutcome(rec, r, fo, c) ==
    IF rec.audioBase64 = "bad-padding"
    THEN [raised |-> TRUE, error |-> "Incorrect padding",
          entry |-> FailedItem("", rec.timestamp)]
    ELSE IF r.kind # "http"
    THEN [raised |-> TRUE, error |-> r.kind, entry |-> FailedItem("", rec.timestamp)]
    ELSE IF ~r.body.json
    THEN [raised |-> TRUE, error |-> "not json",
          entry |-> FailedItem("", rec.timestamp)]
    ELSE IF status_code(r.body) # 0
    THEN [raised |-> FALSE, error |-> "",
          entry |-> FailedItem("status.msg", rec.timestamp)]
    ELSE IF PickTrackOffline(r.body) = NoTrack
    THEN [raised |-> FALSE, error |-> "",
          entry |-> FailedItem("No track in response", rec.timestamp)]
    ELSE [raised |-> FALSE, error |-> "",
          entry |-> TrackResult(PickTrackOffline(r.body), c, fo, rec.timestamp)]

\* an exception of one recording leaves the loop
IsolateAborting(out, rec) ==
    IF out.raised
    THEN [abort |-> TRUE, entry |-> [success |-> FALSE, message |-> out.error,
                                     timestamp |-> rec.timestamp]]
    ELSE [abort |-> FALSE, entry |-> out.entry]

\* lines 2258-2264: an exception of one recording is caught and recorded
\* as a failed entry; the loop goes on
Isolate(out, rec) ==
    IF out.raised
    THEN [abort |-> FALSE, entry |-> FailedItem(out.error, rec.timestamp)]
    ELSE [abort |-> FALSE, entry |-> out.entry]

\* lines 2238-2240: only Spynners tracks are counted; the test is the truth
\* value of spynners_track_id
Counted(entry) ==
    /\ entry.success /\ entry.is_spynners_track
    /\ entry.spynners_track_id \notin {0, EmptyId}

\* line 2073: the bytes of a recording that decodes, an m4a capture
RecordedAudio == <<".", ".", ".", ".", "f", "t", "y", "p">>

NoSample == [data |-> <<>>, format |-> "", extension |-> ""]

\* lines 2090-2092: the decoded bytes are posted as audio.wav as they are
BatchSample(rec) ==
    [data |-> RecordedAudio, format |-> "audio/wav", extension |-> "wav"]

\* the requests one recording issues
SendsIdentify(rec) == rec.audioBase64 # "bad-padding"
FetchesCatalog(rec, r) ==
    /\ SendsIdentify(rec)
    /\ r.kind = "http" /\ r.body.json /\ status_code(r.body) = 0
    /\ PickTrackOffline(r.body) # NoTrack
    /\ ~is_custom(PickTrackOffline(r.body))

\* lines 2068-2264: one iteration of the loop over request.recordings
ProcessRecording ==
    /\ op = "batch" /\ pc = "Received"
    /\ idx <= Len(recordings)
    /\ LET rec == recordings[idx] IN
       \E r \in (IF SendsIdentify(rec) THEN BatchRepliesFor(configured)
                 ELSE {NoReply}) :
         \E fo \in (IF FetchesCatalog(rec, r) THEN CallOutcomes ELSE {"skipped"}) :
           LET got == Isolate(RecordingOutcome(rec, r, fo, catalog), rec) IN
           /\ item_env' = Append(item_env,
                 [reply |-> r, fetch |-> fo,
                  sample |-> IF SendsIdentify(rec) THEN BatchSample(rec)
                             ELSE NoSample,
                  form |-> IF SendsIdentify(rec) THEN FormData(now, configured)
                           ELSE NoForm])
           /\ calls' = calls
                 \o (IF SendsIdentify(rec) THEN <<"identify">> ELSE <<>>)
                 \o (IF fo # "skipped" THEN <<"catalog_fetch_500">> ELSE <<>>)
           /\ IF got.abort
              THEN /\ response' = HttpError(500, "Failed to process offline session",
                                            got.entry.message)
                   /\ pc' = "Failed"
                   /\ UNCHANGED <<results, identified_tracks, idx>>
              ELSE /\ results' = Append(results, got.entry)
                   /\ identified_tracks' =
                        IF Counted(got.entry)
                        THEN Append(identified_tracks, got.entry)
                        ELSE identified_tracks
                   /\ idx' = idx + 1
                   /\ UNCHANGED <<response, pc>>
    /\ UNCHANGED <<reqVars, matchVars, recordings, is_valid_venue, audio_data, fmt,
                   files, tool, steps, submitted, reply, catalog, history>>

\* lines 2266-2280 and 2330-2332: store the session
StoreSession ==
    /\ op = "batch" /\ pc = "Received"
    /\ idx > Len(recordings)
    /\ \E so \in {"ok", "exception"} :
        /\ calls' = Append(calls, "session_insert")
        /\ IF so = "ok"
           THEN /\ pc' = "Stored"
                /\ UNCHANGED response
           ELSE /\ response' = HttpError(500, "Failed to process offline session",
                                         "insert failed")
                /\ pc' = "Failed"
    /\ UNCHANGED <<reqVars, matchVars, batchVars, audio_data, fmt, files, tool,
                   steps, submitted, reply, catalog, history>>

\* lines 2286-2290: the producers that are notified
RECURSIVE Emails(_, _)
Emails(tracks, i) ==
    IF i > Len(tracks) THEN <<>>
    ELSE (IF tracks[i].producer_id # "" THEN <<"send_email">> ELSE <<>>)
         \o Emails(tracks, i + 1)

\* lines 2282-2328: notify the producers and return
NotifyAndReturn ==
    /\ op = "batch" /\ pc = "Stored"
    /\ calls' = IF is_valid_venue /\ identified_tracks # <<>> /\ authorization # NoAuth
                THEN calls \o Emails(identified_tracks, 1)
                ELSE calls
    /\ response' = Ok200([success |-> TRUE,
                          totalRecordings |-> Len(recordings),
                          identifiedTracks |-> Len(identified_tracks),
                          results |-> results])
    /\ pc' = "Returned"
    /\ UNCHANGED <<reqVars, matchVars, batchVars, audio_data, fmt, files, tool,
                   steps, submitted, reply, catalog, history>>

InitBatch ==
    /\ inflight = <<>>
    /\ op = "batch"
    /\ configured \in BOOLEAN
    /\ authorization \in {NoAuth, BearerU1}
    /\ is_valid_venue = TRUE
    /\ request_audio = <<>> /\ output_format = "" /\ segments = <<>>
    /\ recordings \in RecordingLists
    /\ catalog \in BatchCatalogs

BatchInit == InitLocals /\ InitBatch

NextBatch ==
    \/ ProcessRecording
    \/ StoreSession
    \/ NotifyAndReturn

SpecBatch == BatchInit /\ [][NextBatch]_vars

---------------------------------------------------------------------------
(* process_offline_session for one recording over every catalog of the      *)
(* entry kinds (specification SpecOffline)                                  *)

OfflineCatalogs ==
    { [i \in 1..Len(q) |-> [q[i] EXCEPT !.id = i]] :
        q \in SeqsUpTo(OfflineEntryKinds(0), MaxCatalog) }

OfflineInit ==
    /\ InitLocals
    /\ inflight = <<>>
    /\ op = "batch"
    /\ configured = TRUE
    /\ authorization \in {NoAuth, BearerU1}
    /\ is_valid_venue = TRUE
    /\ request_audio = <<>> /\ output_format = "" /\ segments = <<>>
    /\ recordings = <<Recording("sample", 1)>>
    /\ catalog \in OfflineCatalogs

SpecOffline == OfflineInit /\ [][NextBatch]_vars

---------------------------------------------------------------------------
(* The fuzzy matcher of recognize_audio on its own: candidate and fetched   *)
(* list drawn from bounded sets (specification SpecMatch)                  *)

CandidateTitles ==
    { <<>>, <<"a">>, <<"A", "!">>, <<"(", "b", ")">>, <<"a", " ", "b">> }
CandidateArtists == { <<"u">>, <<"b">> }

ListedTitles ==
    { <<>>, <<"a">>, <<"A", " ", "(", "b", ")">>, <<"a", " ", "b">>, <<"!">>,
      TitleAtThreshold, TitleUnrelated }
ListedProducers == { <<>>, <<"u">> }

RECURSIVE ListsOfLen(_)
ListsOfLen(n) ==
    IF n = 0 THEN { <<>> }
    ELSE { Append(c, Entry(n, "", "", t, p)) :
             c \in ListsOfLen(n - 1), t \in ListedTitles, p \in ListedProducers }

\* lines 512-580 applied to the fetched list
Match ==
    /\ op = "match" /\ pc = "Received"
    /\ all_tracks' = Fetched(FetchAll(catalog))
    /\ spynners_track' = FuzzyMatch(track, FetchAll(catalog))
    /\ pc' = "Matched"
    /\ UNCHANGED <<reqVars, batchVars, track, search_raised, recognition_result,
                   audio_data, fmt, files, tool, calls, steps, submitted, reply,
                   response, catalog, history>>

MatchInit ==
    /\ op = "match" /\ pc = "Received"
    /\ inflight = <<>>
    /\ configured = TRUE /\ authorization = NoAuth
    /\ request_audio = <<>> /\ audio_data = <<>> /\ fmt = NoFmt
    /\ files = {} /\ tool = NoTool
    /\ calls = <<>> /\ steps = <<>>
    /\ submitted = [data |-> <<>>, format |-> "", extension |-> ""]
    /\ reply = NoReply
    /\ \E title \in CandidateTitles, artist \in CandidateArtists :
          track = [MusicTrack("") EXCEPT !.title = title, !.artist = artist]
    /\ catalog \in UNION { ListsOfLen(n) : n \in 0..MaxCatalog }
    /\ search_raised = FALSE /\ spynners_track = NoEntry
    /\ all_tracks = NotFetched
    /\ recognition_result = NoResult
    /\ response = NoResponse
    /\ history = <<>>
    /\ output_format = "" /\ segments = <<>> /\ recordings = <<>>
    /\ results = <<>> /\ identified_tracks = <<>> /\ item_env = <<>>
    /\ idx = 1 /\ is_valid_venue = FALSE
    /\ concat_list = <<>>
    /\ now = 0 /\ form = NoForm
    /\ diamond_awards = <<>> /\ black_diamonds = 0 /\ utc_date = 0
    /\ award_calls = <<>>

NextMatch == Match

SpecMatch == MatchInit /\ [][NextMatch]_vars

---------------------------------------------------------------------------
(* The same matcher over artists and producer names, every entry under a    *)
(* title that scores 2/9 + 0.2 without the artist (specification SpecArtist) *)

\* normalized: "u", "b", "" and "uvw"
ArtistNames == { <<"u">>, <<"b">>, <<"(", "b", ")">>, <<"u", "v", "w">> }

\* normalized: "", "u", "uvx" and "uvw z"
ProducerNames ==
    { <<>>, <<"u">>, <<"u", "v", "x">>, <<"U", "v", "w", "!", " ", "z">> }

ArtistInit ==
    /\ op = "match" /\ pc = "Received"
    /\ inflight = <<>>
    /\ configured = TRUE /\ authorization = NoAuth
    /\ request_audio = <<>> /\ audio_data = <<>> /\ fmt = NoFmt
    /\ files = {} /\ tool = NoTool
    /\ calls = <<>> /\ steps = <<>>
    /\ submitted = [data |-> <<>>, format |-> "", extension |-> ""]
    /\ reply = NoReply
    /\ \E artist \in ArtistNames :
          track = [MusicTrack("") EXCEPT !.title = AcrTitle, !.artist = artist]
    /\ \E q \in SeqsUpTo(ProducerNames, MaxCatalog) :
          catalog = [i \in 1..Len(q) |-> Entry(i, "", "", TitleBelowThreshold, q[i])]
    /\ search_raised = FALSE /\ spynners_track = NoEntry
    /\ all_tracks = NotFetched
    /\ recognition_result = NoResult
    /\ response = NoResponse
    /\ history = <<>>
    /\ output_format = "" /\ segments = <<>> /\ recordings = <<>>
    /\ results = <<>> /\ identified_tracks = <<>> /\ item_env = <<>>
    /\ idx = 1 /\ is_valid_venue = FALSE
    /\ concat_list = <<>>
    /\ now = 0 /\ form = NoForm
    /\ diamond_awards = <<>> /\ black_diamonds = 0 /\ utc_date = 0
    /\ award_calls = <<>>

SpecArtist == ArtistInit /\ [][NextMatch]_vars

---------------------------------------------------------------------------
(* Format detection over byte buffers: recognize_audio up to the transcoding *)
(* step, and convert_audio (specification SpecDetect)                        *)

MagicNumbers ==
    { <<"R", "I", "F", "F">>, <<"1A", "E", "DF", "A3">>, <<"f", "t", "y", "p">>,
      <<"I", "D", "3">>, <<"FF", "FB">>, <<"O", "g", "g", "S">>,
      <<".", ".", ".", ".">> }

\* the magic numbers and their truncations
Chunks == UNION { { SubSeq(m, 1, k) : k \in 1..Len(m) } : m \in MagicNumbers }

RECURSIVE Flatten(_)
Flatten(q) == IF q = <<>> THEN <<>> ELSE Head(q) \o Flatten(Tail(q))

ByteBuffers == { Flatten(q) : q \in SeqsUpTo(Chunks, MaxBufferChunks) }

DetectInit ==
    /\ InitLocals
    /\ inflight = <<>>
    /\ op \in {"recognize", "convert"}
    /\ configured = TRUE /\ authorization = NoAuth
    /\ request_audio \in ByteBuffers
    /\ output_format = (IF op = "convert" THEN "mp3" ELSE "")
    /\ catalog = <<>> /\ segments = <<>> /\ recordings = <<>>
    /\ is_valid_venue = FALSE

NextDetect == DetectFormat \/ Transcode \/ SkipTranscode \/ ConvertAudio

SpecDetect == DetectInit /\ [][NextDetect]_vars

---------------------------------------------------------------------------
(* The identify requests of recognize_audio and process_offline_session     *)
(* while the clock advances (specification SpecSign)                        *)

\* time.time() grows between two reads
Tick ==
    /\ now < MaxSignedRequests
    /\ pc \in {"Received", "FormatDetected", "Transcoded", "SkipTranscode"}
    /\ now' = now + 1
    /\ UNCHANGED <<op, configured, authorization, request_audio, output_format,
                   segments, inflight, concat_list, form, diamondVars, batchVars,
                   matchVars, pc,
                   audio_data, fmt, files, tool, calls, steps, submitted, reply,
                   response, catalog, history>>

SignInit ==
    /\ (Init \/ BatchInit)
    /\ catalog = <<>>
    /\ Len(recordings) <= MaxSignedRequests

NextSign == Tick \/ Next \/ NextBatch

SpecSign == SignInit /\ [][NextSign]_vars

---------------------------------------------------------------------------
(* award_diamond: calls of one user that the event loop interleaves at the  *)
(* awaits of the balance update (specification SpecDiamond)                 *)

DiamondTypes == {"black", "gold"}
DiamondUser == "u1"

\* strftime("%Y-%m-%d") of the day number
Today(d) == <<"2", "0", "2", "6", "-", "0", "1", "-", "0", ToString(d + 1)>>

Award(user_id, type, date) == [user_id |-> user_id, type |-> type, date |-> date]

NoDoc == Award("", "", <<>>)

\* the check is dropped
find_one_nothing(coll, user_id, type, date) == NoDoc

\* lines 1971-1975: the first document with the three fields, None without
find_one(coll, user_id, type, date) ==
    LET hits == { i \in DOMAIN coll : coll[i] = Award(user_id, type, date) }
    IN IF hits = {} THEN NoDoc
       ELSE coll[CHOOSE i \in hits : \A j \in hits : i <= j]

AlreadyAwarded ==
    [success |-> FALSE, message |-> "Already earned a diamond today",
     already_awarded |-> TRUE]

DiamondAwarded(type, date) ==
    [success |-> TRUE, message |-> "Diamond awarded!", type |-> type, date |-> date]

AwardFailed == [success |-> FALSE, message |-> "Failed to award diamond"]

NoAwardResponse == [success |-> FALSE, message |-> ""]

\* the outcomes of the two collection calls: both answer, the read raises,
\* the insert raises
CollectionOutcomes == {"ok", "find raised", "insert raised"}

AwardCall(position, user_id, type, auth, today, seen, inserted, current, updated, resp) ==
    [position |-> position, user_id |-> user_id, type |-> type,
     authorization |-> auth, today |-> today, seen |-> seen,
     inserted |-> inserted, current_diamonds |-> current, updated |-> updated,
     response |-> resp]

\* lines 1966-1993 and 2032-2037: the handler up to its first await; the
\* collection calls are synchronous, so no other call runs in between
AwardDiamond ==
    /\ op = "award"
    /\ Len(award_calls) < MaxAwardCalls
    /\ \E type \in DiamondTypes, auth \in BOOLEAN, o \in CollectionOutcomes :
         LET user_id == DiamondUser
             today == Today(utc_date)
             existing_award == find_one(diamond_awards, user_id, type, today)
             call(position, inserted, resp) ==
                 AwardCall(position, user_id, type, auth, today, diamond_awards,
                           inserted, 0, FALSE, resp)
         IN IF o = "find raised"
            THEN /\ award_calls' = Append(award_calls, call("Returned", FALSE, AwardFailed))
                 /\ UNCHANGED diamond_awards
            ELSE IF existing_award # NoDoc
            THEN /\ award_calls' = Append(award_calls,
                                          call("Returned", FALSE, AlreadyAwarded))
                 /\ UNCHANGED diamond_awards
            ELSE IF o = "insert raised"
            THEN /\ award_calls' = Append(award_calls, call("Returned", FALSE, AwardFailed))
                 /\ UNCHANGED diamond_awards
            ELSE /\ diamond_awards' = Append(diamond_awards, Award(user_id, type, today))
                 /\ award_calls' =
                      Append(award_calls,
                             IF auth THEN call("GetUser", TRUE, NoAwardResponse)
                             ELSE call("Returned", TRUE, DiamondAwarded(type, today)))
    /\ UNCHANGED <<inputVars, concat_list, now, form, black_diamonds, utc_date,
                   batchVars, matchVars, pc, audio_data, fmt, files, tool, calls,
                   steps, submitted, reply, response, catalog, history>>

\* lines 2005-2013: the read of the user's record; anything but a 200, or an
\* exception, ends the update
AwardGetUser(c) ==
    /\ c \in DOMAIN award_calls
    /\ award_calls[c].position = "GetUser"
    /\ \E status \in {"200", "404", "raised"} :
         award_calls' =
           [award_calls EXCEPT ![c] =
              IF status = "200"
              THEN [@ EXCEPT !.position = "PutUser",
                             !.current_diamonds = black_diamonds]
              ELSE [@ EXCEPT !.position = "Returned",
                             !.response = DiamondAwarded(award_calls[c].type,
                                                        award_calls[c].today)]]
    /\ UNCHANGED <<inputVars, concat_list, now, form, diamond_awards, black_diamonds,
                   utc_date, batchVars, matchVars, pc, audio_data, fmt, files, tool,
                   calls, steps, submitted, reply, response, catalog, history>>

\* lines 2015-2030: the write of the incremented count, and the answer
AwardPutUser(c) ==
    /\ c \in DOMAIN award_calls
    /\ award_calls[c].position = "PutUser"
    /\ \E applied \in BOOLEAN :
         /\ black_diamonds' = (IF applied THEN award_calls[c].current_diamonds + 1
                               ELSE black_diamonds)
         /\ award_calls' =
              [award_calls EXCEPT ![c] =
                 [@ EXCEPT !.position = "Returned", !.updated = applied,
                           !.response = DiamondAwarded(award_calls[c].type,
                                                        award_calls[c].today)]]
    /\ UNCHANGED <<inputVars, concat_list, now, form, diamond_awards, utc_date,
                   batchVars, matchVars, pc, audio_data, fmt, files, tool, calls,
                   steps, submitted, reply, response, catalog, history>>

\* midnight UTC
NextDay ==
    /\ op = "award"
    /\ utc_date < MaxDays
    /\ utc_date' = utc_date + 1
    /\ UNCHANGED <<inputVars, concat_list, now, form, diamond_awards, black_diamonds,
                   award_calls, batchVars, matchVars, pc, audio_data, fmt, files,
                   tool, calls, steps, submitted, reply, response, catalog, history>>

DiamondInit ==
    /\ InitLocals
    /\ inflight = <<>>
    /\ op = "award"
    /\ configured = TRUE /\ authorization = NoAuth
    /\ request_audio = <<>> /\ output_format = ""
    /\ catalog = <<>> /\ segments = <<>> /\ recordings = <<>>
    /\ is_valid_venue = FALSE

NextDiamond ==
    \/ AwardDiamond
    \/ \E c \in 1..MaxAwardCalls : AwardGetUser(c)
    \/ \E c \in 1..MaxAwardCalls : AwardPutUser(c)
    \/ NextDay

SpecDiamond == DiamondInit /\ [][NextDiamond]_vars

---------------------------------------------------------------------------
(* The two handlers that read the fingerprint service's buckets, side by    *)
(* side (specification SpecBuckets)                                         *)

BucketsInit ==
    /\ (Init \/ BatchInit)
    /\ Len(catalog) <= MaxBucketItems
    /\ Len(recordings) <= MaxBucketItems

NextBuckets == Next \/ NextBatch

SpecBuckets == BucketsInit /\ [][NextBuckets]_vars

---------------------------------------------------------------------------
(* Concurrent recognize_audio calls on the catalog-matcher path: each call  *)
(* has its own locals, the requests to the catalog are the points where     *)
(* the calls interleave (specification SpecConcurrent); what each call      *)
(* requested is read from its position and from its put field               *)

Calls == 1..MaxCalls

CallLocals(t) ==
    [pc |-> "Identified", track |-> t, search_raised |-> FALSE,
     spynners_track |-> NoEntry, put |-> "skipped"]

\* lines 485-498 of call c
CallLookup(c) ==
    LET me == inflight[c] IN
    /\ op = "concurrent" /\ me.pc = "Identified"
    /\ \E lo \in (IF me.track.acrid # "" THEN CallOutcomes ELSE {"skipped"}) :
        /\ inflight' = [inflight EXCEPT ![c] =
              [me EXCEPT !.pc = "LookupDone",
                         !.spynners_track =
                             IF lo = "ok" THEN LookupByAcrId(catalog, me.track.acrid)
                             ELSE NoEntry,
                         !.search_raised = (lo = "exception")]]
    /\ UNCHANGED <<op, configured, authorization, request_audio, output_format,
                   segments, otherVars, batchVars, matchVars, pc, audio_data, fmt, files, tool,
                   steps, submitted, reply, response, catalog, history, calls>>

\* lines 500-580 of call c
CallScan(c) ==
    LET me == inflight[c] IN
    /\ op = "concurrent" /\ me.pc = "LookupDone"
    /\ \E fo \in (IF ~me.search_raised /\ me.spynners_track = NoEntry
                  THEN CallOutcomes ELSE {"skipped"}) :
        /\ inflight' = [inflight EXCEPT ![c] =
              [me EXCEPT !.pc = "FuzzyMatchAttempted",
                         !.spynners_track =
                             IF fo = "ok" THEN FuzzyMatch(me.track, FetchAll(catalog))
                             ELSE me.spynners_track,
                         !.search_raised = (me.search_raised \/ fo = "exception")]]
    /\ UNCHANGED <<op, configured, authorization, request_audio, output_format,
                   segments, otherVars, batchVars, matchVars, pc, audio_data, fmt, files, tool,
                   steps, submitted, reply, response, catalog, history, calls>>

\* lines 582-601 of call c
CallWriteBack(c) ==
    LET me == inflight[c] IN
    /\ op = "concurrent" /\ me.pc = "FuzzyMatchAttempted"
    /\ \E po \in (IF NeedsWriteBack(me.track, me.spynners_track)
                  THEN CallOutcomes ELSE {"skipped"}) :
        /\ catalog' = IF po = "ok"
                      THEN PutAcrId(catalog, me.spynners_track.id, me.track.acrid)
                      ELSE catalog
        /\ inflight' = [inflight EXCEPT ![c] =
                           [me EXCEPT !.pc = "Enriched", !.put = po]]
    /\ UNCHANGED <<op, configured, authorization, request_audio, output_format,
                   segments, otherVars, batchVars, matchVars, pc, audio_data, fmt, files, tool,
                   steps, submitted, reply, response, history, calls>>

\* entries the identified title reaches by fingerprint id, by title, or not
ConcurrentEntryKinds(id) ==
    { e \in EntryKinds(id) : e.acrcloud_id # "" \/ e.title \in {AcrTitle, TitleUnrelated} }

ConcurrentCatalogs ==
    { c \in Catalogs : \A i \in 1..Len(c) : c[i] \in ConcurrentEntryKinds(i) }

InitConcurrent ==
    /\ op = "concurrent"
    /\ configured = TRUE /\ authorization = NoAuth
    /\ request_audio = <<>>
    /\ catalog \in ConcurrentCatalogs
    /\ inflight \in [Calls -> { CallLocals(MusicTrack(a)) : a \in {"a1", "a2"} }]
    /\ output_format = "" /\ segments = <<>> /\ recordings = <<>>
    /\ is_valid_venue = FALSE

ConcurrentInit == InitLocals /\ InitConcurrent

NextConcurrent ==
    \/ \E c \in Calls : CallLookup(c)
    \/ \E c \in Calls : CallScan(c)
    \/ \E c \in Calls : CallWriteBack(c)

SpecConcurrent == ConcurrentInit /\ [][NextConcurrent]_vars

---------------------------------------------------------------------------
(* Properties *)

CountIn(q, x) == Cardinality({ i \in 1..Len(q) : q[i] = x })
InCalls(x) == CountIn(calls, x) > 0
InSteps(x) == CountIn(steps, x) > 0

TransportFailure(r) ==
    \/ r.kind \in {"timeout", "connect_error"}
    \/ r.kind = "http" /\ r.status \notin 200..299

\* C1: in recognize_audio every transport failure of the fingerprint service
\* (timeout, connection error, non-2xx response) ends in IdentifyFailed with
\* HTTP 500 "Recognition failed", and NotRecognized is reached only from a
\* structured answer that is no transport failure.
C1_FailureClassesDistinguishable ==
    (op = "recognize" /\ reply # NoReply) =>
        /\ TransportFailure(reply) =>
              /\ pc = "IdentifyFailed"
              /\ response.status = 500
              /\ response.body.detail.prefix = "Recognition failed"
        /\ pc = "NotRecognized" =>
              /\ ~TransportFailure(reply)
              /\ reply.body.json

\* C2: when the fingerprint answer's custom_files bucket is non-empty, neither
\* the catalog query by fingerprint id nor the 500-entry fetch is ever issued.
C2_DirectMatchBypass ==
    (op = "recognize" /\ reply.kind = "http" /\ reply.body.json
        /\ reply.body.custom_files # <<>>) =>
        /\ ~InCalls("catalog_by_id")
        /\ ~InCalls("catalog_fetch_500")

C2_Witness ==
    /\ op = "recognize" /\ pc = "Returned"
    /\ reply.body.custom_files # <<>>
    /\ response.status = 200 /\ response.body.success
    /\ InCalls("track_get")

\* C3: the 500-entry fetch is issued at most once per call, and only in a step
\* that starts with a candidate that is not direct and with the lookup by
\* fingerprint id either not attempted (empty id) or without an entry; an entry
\* the lookup returned is kept, the fetch is skipped and the result uses it.
C3_FuzzyScanAtMostOnce ==
    /\ [](op = "recognize" => CountIn(calls, "catalog_fetch_500") <= 1)
    /\ [][ CountIn(calls', "catalog_fetch_500") > CountIn(calls, "catalog_fetch_500")
             => /\ ~is_custom(track)
                /\ \/ track.acrid = "" /\ ~InCalls("catalog_by_id")
                   \/ InCalls("catalog_by_id") /\ spynners_track = NoEntry ]_vars
    /\ [][ (op = "recognize" /\ pc = "LookupDone" /\ spynners_track # NoEntry)
             => /\ calls' = calls
                /\ spynners_track' = spynners_track ]_vars
    /\ [](op = "recognize" /\ pc = "Returned" /\ ~is_custom(track)
             /\ spynners_track # NoEntry
           => response.body.spynners_track_id = spynners_track.id)

C3_Witness ==
    /\ op = "recognize" /\ pc = "Returned"
    /\ InCalls("catalog_by_id") /\ ~InCalls("catalog_fetch_500")
    /\ spynners_track # NoEntry
    /\ Len(catalog) > 1

StepRank(x) ==
    CASE x = "format-detect" -> 1
      [] x = "transcode" -> 2
      [] x = "identify" -> 3
      [] x = "match" -> 4
      [] x = "enrich" -> 5
      [] x = "persist" -> 6

ExpectedSteps ==
    <<"format-detect">>
    \o (IF detect(request_audio).needs_conversion THEN <<"transcode">> ELSE <<>>)
    \o <<"identify">>
    \o (IF is_custom(track) THEN <<>> ELSE <<"match">>)
    \o <<"enrich">>
    \o (IF authorization # NoAuth THEN <<"persist">> ELSE <<>>)

\* C4: the steps of one call run in the order format-detect, transcode,
\* identify, match, enrich, persist, and a call that returns a result has run
\* every step but transcode (input needing none) and match (direct match).
C4_StrictStepOrder ==
    op = "recognize" =>
        /\ \A i, j \in 1..Len(steps) : i < j => StepRank(steps[i]) < StepRank(steps[j])
        /\ pc = "Returned" => steps = ExpectedSteps

\* C5: a call made with a bearer token that returns a result has passed
\* through Persisted, with the history write attempted for the token's user.
C5_PersistedBeforeReturned ==
    (op = "recognize" /\ pc = "Returned" /\ authorization # NoAuth) =>
        /\ InSteps("persist")
        /\ token_user(authorization) # "raise" => InCalls("history_insert")

\* C6: once the identify-time transcode, convert_audio or concatenate_audio is
\* over, no temporary file or directory of the call exists.
C6_NoTemporaryFileRemains ==
    (op \in {"recognize", "convert", "concat"}
        /\ pc \notin {"Received", "FormatDetected"}) => files = {}

ToolFailed == tool # NoTool /\ ~ToolSucceeded(tool)

\* C7: when the identify-time transcode fails, the request is not failed: the
\* handler goes on to the identify step and submits the original bytes with
\* the originally detected format.
C7_TranscodeFailureFallsBack ==
    (op = "recognize" /\ ToolFailed) =>
        /\ audio_data = request_audio
        /\ fmt = detect(request_audio)
        /\ ~InCalls("identify") =>
              /\ pc = "SkipTranscode"
              /\ response = NoResponse
              /\ ENABLED Identify
        /\ InCalls("identify") =>
              submitted = [data |-> request_audio,
                           format |-> detect(request_audio).format,
                           extension |-> detect(request_audio).extension]

C7_Witness ==
    /\ op = "recognize" /\ ToolFailed
    /\ pc = "Identified"
    /\ submitted.format = "audio/webm"

\* C8: in process_offline_session no failing recording ends the loop or the
\* call: every recording gets exactly one entry, a recording whose processing
\* raised gets one success:false entry, every other recording gets the entry
\* its own answers determine, and only the session store can fail the call.
\* (The entries are compared while the loop runs and when it has ended,
\* position Received; the later steps leave them as they are.)
C8_BatchIsolation ==
    op = "batch" =>
        /\ Len(results) = idx - 1
        /\ Len(item_env) = idx - 1
        /\ pc = "Received" => \A i \in 1..Len(results) :
              LET alone == RecordingOutcome(recordings[i], item_env[i].reply,
                                            item_env[i].fetch, catalog) IN
              IF alone.raised
              THEN results[i] = [success |-> FALSE, message |-> alone.error,
                                 timestamp |-> recordings[i].timestamp]
              ELSE results[i] = alone.entry
        /\ pc = "Failed" =>
              /\ idx = Len(recordings) + 1
              /\ calls[Len(calls)] = "session_insert"
        /\ pc = "Returned" =>
              /\ response.status = 200
              /\ response.body.results = results
              /\ Len(results) = Len(recordings)

C8_Witness ==
    /\ op = "batch" /\ pc = "Returned"
    /\ Len(recordings) = 3
    /\ item_env[2].reply.kind = "timeout"
    /\ results[1].success /\ ~results[2].success /\ results[3].success

\* C9: once the fingerprint service returned a candidate, the call ends with
\* HTTP 200 and success:true whatever the catalog lookup, the catalog fetch,
\* the producer-email lookup, the write-back or the history write do; without
\* a catalog entry the result carries the fingerprint's own fields.  (After
\* the lookup, position LookupDone, the scan step has no guard but the
\* position.)
C9_OptionalFailuresStayLocal ==
    (op = "recognize" /\ track # NoTrack) =>
        /\ pc \notin {"IdentifyFailed", "NotRecognized", "ConfigError"}
        /\ response.status \in {0, 200}
        /\ pc \notin {"Returned", "LookupDone"} => ENABLED Next
        /\ pc = "Returned" =>
              /\ response.status = 200
              /\ response.body.success
              /\ response.body.acrcloud_id = track.acrid
              /\ (~is_custom(track) /\ spynners_track = NoEntry) =>
                    /\ response.body.title = track.title
                    /\ response.body.spynners_track_id = 0
                    /\ response.body.producer_email = ""

C9_Witness ==
    /\ op = "recognize" /\ pc = "Returned"
    /\ response.status = 200 /\ response.body.success
    /\ InCalls("catalog_fetch_500")
    /\ FuzzyMatch(track, FetchAll(catalog)) # NoEntry /\ spynners_track = NoEntry
    /\ InCalls("history_insert") /\ history = <<>>

CleanNonMatch(r) ==
    /\ r.kind = "http" /\ r.body.json
    /\ \/ status_code(r.body) # 0
       \/ r.body.custom_files = <<>> /\ r.body.music = <<>> /\ r.body.humming = <<>>

\* C10: a structured answer with status.code # 0, or with code 0 and every
\* bucket empty, gives HTTP 200 {success:false, "Could not identify the
\* track"}, with no catalog query, no write-back and no history write.
C10_NotRecognizedIsClean ==
    (op = "recognize" /\ CleanNonMatch(reply)) =>
        /\ pc = "NotRecognized"
        /\ response.status = 200
        /\ response.body.success = FALSE
        /\ response.body.message = "Could not identify the track"
        /\ calls = <<"identify">>
        /\ history = <<>>

C10_Witness ==
    /\ op = "recognize" /\ pc = "NotRecognized"
    /\ reply.status = 200 /\ status_code(reply.body) = 1001
    /\ response.status = 200

\* C11: with the access key or the access secret unset, recognize_audio
\* answers HTTP 503 at once: the sample is not decoded, no format is detected,
\* the tool is not run, and no request to the fingerprint service, the catalog
\* or the history store is made.
C11_UnconfiguredFailsFast ==
    (op = "recognize" /\ ~configured) =>
        /\ pc \in {"Received", "ConfigError"}
        /\ audio_data = <<>> /\ fmt = NoFmt /\ steps = <<>>
        /\ files = {} /\ tool = NoTool
        /\ calls = <<>> /\ history = <<>>
        /\ pc = "Received" => response = NoResponse /\ ENABLED RejectUnconfigured
        /\ pc = "ConfigError" =>
              /\ response.status = 503
              /\ response.body.detail.prefix = "ACRCloud not configured"

C11_Witness ==
    /\ op = "recognize" /\ ~configured /\ pc = "ConfigError"
    /\ request_audio = BadBase64 /\ authorization = BearerU1
    /\ catalog # <<>>

\* C12: with the credentials unset, process_offline_session sends no request
\* to the fingerprint service for any recording and does not return success:
\* the call ends with HTTP 503, as recognize_audio does.
C12_MissingCredentialsPropagate ==
    /\ (op = "recognize" /\ ~configured /\ pc # "Received") => response.status = 503
    /\ (op = "batch" /\ ~configured) =>
          /\ ~InCalls("identify")
          /\ pc = "Returned" => response.status = 503

SameNormalizedTitle(t) == normalize_title(t.title) = normalize_title(track.title)

\* C13 as stated: every entry of the scanned list whose normalized title is
\* the candidate's normalized title has total 2.0 and is the entry the match
\* selects.
C13_ExactTitleSelected ==
    (op = "match" /\ pc = "Matched") =>
        \A i \in 1..Len(catalog) :
            SameNormalizedTitle(catalog[i]) =>
                /\ total_score(track, catalog[i]) = [num |-> 2, den |-> 1]
                /\ spynners_track = catalog[i]

\* C13: every entry of the scanned list with a non-empty title whose
\* normalized title is the candidate's normalized title has total 2.0, no
\* other entry reaches 2.0, and the match selects the first such entry of
\* the list, whatever the artists and the other entries are.
C13_FirstExactTitleSelected ==
    (op = "match" /\ pc = "Matched") =>
        \A i \in 1..Len(catalog) :
            IF catalog[i].title # <<>> /\ SameNormalizedTitle(catalog[i])
            THEN /\ total_score(track, catalog[i]) = [num |-> 2, den |-> 1]
                 /\ (\A j \in 1..(i - 1) :
                        catalog[j].title = <<>> \/ ~SameNormalizedTitle(catalog[j]))
                      => spynners_track = catalog[i]
            ELSE ~AtLeast(total_score(track, catalog[i]), 2000)
                 \/ catalog[i].title = <<>>

C13_Witness ==
    /\ op = "match" /\ pc = "Matched"
    /\ Len(catalog) = 2
    /\ track.title = <<"A", "!">> /\ track.artist = <<"b">>
    /\ catalog[1].title = <<"a", " ", "b">>
    /\ catalog[2].title = <<"A", " ", "(", "b", ")">> /\ catalog[2].producer_name = <<"u">>
    /\ spynners_track = catalog[2]

\* C14: right after a fuzzy scan, a catalog entry is matched exactly when the scan's
\* best entry (highest total among the entries with a title, total above 0)
\* has a total of at least 0.45; it is then that entry; a best total of
\* exactly 0.45 is accepted, and without a match the call returns the
\* fingerprint's own fields.
C14_ThresholdBoundary ==
    /\ (op = "recognize" /\ pc = "FuzzyMatchAttempted" /\ all_tracks.fetched) =>
          LET L == all_tracks.tracks
              totals == [i \in 1..Len(L) |-> total_score(track, L[i])]
              Scored == { i \in 1..Len(L) :
                            L[i].title # <<>> /\ totals[i].num > 0 }
              Top == { i \in Scored :
                         \A j \in Scored : ~Greater(totals[j], totals[i]) }
          IN /\ spynners_track # NoEntry
                  <=> \E i \in Top : totals[i].num * 100 >= 45 * totals[i].den
             /\ spynners_track # NoEntry => \E i \in Top : spynners_track = L[i]
    /\ (op = "recognize" /\ pc = "Returned" /\ all_tracks.fetched
          /\ spynners_track = NoEntry) =>
             /\ response.body.success
             /\ response.body.spynners_track_id = 0
             /\ response.body.title = track.title

C14_Witness ==
    /\ op = "recognize" /\ pc = "Returned" /\ all_tracks.fetched
    /\ Len(all_tracks.tracks) = 2
    /\ all_tracks.tracks[1].title = TitleBelowThreshold
    /\ spynners_track = all_tracks.tracks[2]
    /\ total_score(track, spynners_track).num * 100
          = 45 * total_score(track, spynners_track).den
    /\ response.body.spynners_track_id = 2

\* C15: one call issues at most one catalog PUT; on the catalog-matcher path
\* it has been issued, once the result is built, exactly when an entry was
\* accepted, the fingerprint id is non-empty and the entry carries no
\* fingerprint id; no PUT is issued on a direct match, on a not-recognized or
\* failed call, or without an entry; whether the PUT succeeded or not, the
\* call returns HTTP 200 with the accepted entry.
C15_WriteBackAtMostOnce ==
    op = "recognize" =>
        /\ CountIn(calls, "catalog_put") <= 1
        /\ InCalls("catalog_put") =>
              /\ pc \in {"Enriched", "Persisted", "Returned"}
              /\ ~is_custom(track)
        /\ (pc \in {"Enriched", "Persisted", "Returned"} /\ ~is_custom(track)) =>
              (InCalls("catalog_put")
                 <=> /\ spynners_track # NoEntry
                     /\ track.acrid # ""
                     /\ spynners_track.acrcloud_id = "")
        /\ (pc = "Returned" /\ InCalls("catalog_put")) =>
              /\ response.status = 200
              /\ response.body.success
              /\ response.body.spynners_track_id = spynners_track.id
              /\ response.body.title = spynners_track.title
              /\ response.body.acrcloud_id = track.acrid
              /\ \A i \in 1..Len(catalog) :
                    \/ catalog[i] = all_tracks.tracks[i]
                    \/ /\ catalog[i].id = spynners_track.id
                       /\ catalog[i] = [all_tracks.tracks[i]
                                           EXCEPT !.acrcloud_id = track.acrid]

\* the PUT failed: the entry still has no fingerprint id, the call succeeded
C15_Witness ==
    /\ op = "recognize" /\ pc = "Returned"
    /\ InCalls("catalog_put")
    /\ EntityById(catalog, spynners_track.id).acrcloud_id = ""
    /\ response.status = 200 /\ response.body.spynners_track_id = spynners_track.id

WriteBackDue(c) ==
    /\ inflight[c].pc = "FuzzyMatchAttempted"
    /\ inflight[c].spynners_track # NoEntry
    /\ inflight[c].track.acrid # ""
    /\ inflight[c].spynners_track.acrcloud_id = ""

\* C16: when two concurrent calls are about to write back to the same
\* catalog entry, the entry ends with the same fingerprint id whichever of
\* the two PUTs the catalog applies first.
C16_WriteBackOrderIndependent ==
    op = "concurrent" =>
        \A c1, c2 \in Calls :
            (/\ c1 # c2 /\ WriteBackDue(c1) /\ WriteBackDue(c2)
             /\ inflight[c1].spynners_track.id = inflight[c2].spynners_track.id) =>
                LET id == inflight[c1].spynners_track.id
                    a1 == inflight[c1].track.acrid
                    a2 == inflight[c2].track.acrid
                IN PutAcrId(PutAcrId(catalog, id, a1), id, a2)
                     = PutAcrId(PutAcrId(catalog, id, a2), id, a1)

\* C17: a write-back changes nothing but the fingerprint id of its entry, and
\* a write-back of a (catalog id, fingerprint id) pair that was already
\* applied leaves the catalog as it is.
C17_WriteBackIdempotent ==
    [][ op = "concurrent" =>
          \A c \in Calls :
            (inflight[c].pc = "FuzzyMatchAttempted" /\ inflight'[c].pc = "Enriched") =>
                LET id == inflight[c].spynners_track.id
                    a == inflight[c].track.acrid
                IN /\ Len(catalog') = Len(catalog)
                   /\ \A i \in 1..Len(catalog) :
                         \/ catalog'[i] = catalog[i]
                         \/ /\ catalog[i].id = id
                            /\ catalog'[i] = [catalog[i] EXCEPT !.acrcloud_id = a]
                   /\ EntityById(catalog, id).acrcloud_id = a => catalog' = catalog
      ]_vars

\* two calls wrote the same pair, one after the other
C17_Witness ==
    /\ op = "concurrent"
    /\ \A c \in Calls : inflight[c].pc = "Enriched"
    /\ \E c1, c2 \in Calls :
          /\ c1 # c2
          /\ inflight[c1].put = "ok" /\ inflight[c2].put = "ok"
          /\ inflight[c1].spynners_track.id = inflight[c2].spynners_track.id
          /\ inflight[c1].track.acrid = inflight[c2].track.acrid
          /\ EntityById(catalog, inflight[c1].spynners_track.id).acrcloud_id
                = inflight[c1].track.acrid
          /\ EntityById(catalog, inflight[c1].spynners_track.id).producer_id = "p1"

\* C18: every success:true result of recognize_audio carries the boolean
\* field is_spynners_track, true exactly when the result is enriched from the
\* catalog (direct match, or an entry found by fingerprint id or by title).
C18_SuccessCarriesSpynnersFlag ==
    (/\ op = "recognize" /\ pc = "Returned"
     /\ response.status = 200 /\ response.body.success) =>
        /\ "is_spynners_track" \in DOMAIN response.body
        /\ response.body.is_spynners_track \in BOOLEAN
        /\ response.body.is_spynners_track
              = (is_custom(track) \/ spynners_track # NoEntry)

\* what recognize_audio submits for the bytes data, for each way its
\* transcoding step can end
SingleCallSamples(data) ==
    LET f == detect(data) IN
    IF f.needs_conversion
    THEN { [data |-> TranscodedSample(o, data, f).data,
            format |-> TranscodedSample(o, data, f).fmt.format,
            extension |-> TranscodedSample(o, data, f).fmt.extension] :
             o \in ToolOutcomes }
    ELSE { [data |-> data, format |-> f.format, extension |-> f.extension] }

\* C19: each recording of process_offline_session goes through the steps of
\* a single recognize_audio call before it is submitted: what the batch
\* posts to the fingerprint service for a recording is what recognize_audio
\* posts for the same bytes (detected format, transcoded when webm/m4a/ogg).
C19_BatchRunsSameMachine ==
    op = "batch" =>
        \A i \in 1..Len(item_env) :
            item_env[i].sample # NoSample =>
                item_env[i].sample \in SingleCallSamples(RecordedAudio)

StartsWith(buf, off, magic) ==
    /\ Len(buf) >= off + Len(magic)
    /\ \A k \in 1..Len(magic) : buf[off + k] = magic[k]

\* the extension the priority order gives a buffer
ExtensionByPriority(buf, default) ==
    CASE StartsWith(buf, 0, <<"R", "I", "F", "F">>) -> "wav"
      [] OTHER ->
    CASE StartsWith(buf, 0, <<"1A", "E", "DF", "A3">>) -> "webm"
      [] OTHER ->
    CASE StartsWith(buf, 0, <<"f", "t", "y", "p">>)
           \/ StartsWith(buf, 4, <<"f", "t", "y", "p">>) -> "m4a"
      [] OTHER ->
    CASE StartsWith(buf, 0, <<"I", "D", "3">>)
           \/ StartsWith(buf, 0, <<"FF", "FB">>) -> "mp3"
      [] OTHER ->
    CASE StartsWith(buf, 0, <<"O", "g", "g", "S">>) -> "ogg"
      [] OTHER -> default

\* C21: for every byte buffer, empty and short ones included, detection
\* returns one format in the priority order RIFF, EBML header, ftyp at
\* offset 0 or 4, ID3 or FF FB, OggS, else the default (wav in
\* recognize_audio, m4a in convert_audio), and raises nothing;
\* needs_conversion is set exactly for webm, m4a and ogg, and the tool runs
\* in recognize_audio exactly for those.
C21_DetectionTotalInPriorityOrder ==
    /\ (op = "recognize" /\ request_audio # BadBase64 /\ pc # "Received") =>
          LET ext == ExtensionByPriority(request_audio, "wav") IN
          /\ pc \in {"FormatDetected", "Transcoded", "SkipTranscode"}
                => response = NoResponse
          /\ pc = "FormatDetected" =>
                /\ fmt.extension = ext
                /\ fmt.format = (CASE ext = "wav" -> "audio/wav"
                                   [] ext = "webm" -> "audio/webm"
                                   [] ext = "m4a" -> "audio/mp4"
                                   [] ext = "mp3" -> "audio/mpeg"
                                   [] ext = "ogg" -> "audio/ogg")
                /\ fmt.needs_conversion <=> ext \in {"webm", "m4a", "ogg"}
          /\ pc \in {"Transcoded", "SkipTranscode"} =>
                (tool # NoTool <=> ext \in {"webm", "m4a", "ogg"})
    /\ (op = "convert" /\ request_audio # BadBase64 /\ pc = "Returned") =>
          fmt.extension = ExtensionByPriority(request_audio, "m4a")

\* a six-byte buffer with ID3 in front: mp3, sent on without the tool
C21_Witness ==
    /\ op = "recognize" /\ pc = "SkipTranscode"
    /\ request_audio = <<"I", "D", "3", "f", "t", "y">>
    /\ fmt.extension = "mp3" /\ tool = NoTool

\* the tool ran to its end and failed: exit code not 0, or no output file
ToolFailure == tool # NoTool /\ ~tool.raised /\ ~(tool.rc = 0 /\ tool.output)

StructuredFailure(prefix) ==
    /\ response.status = 200
    /\ ~response.body.success
    /\ response.body.message.prefix = prefix

C23_ManifestInInputOrder ==
    (op = "concat" /\ tool # NoTool) =>
        /\ Len(concat_list) = Len(segments)
        /\ \A i \in 1..Len(concat_list) : concat_list[i].data = segments[i]
        /\ \A i, j \in 1..Len(concat_list) :
              concat_list[i].file = concat_list[j].file => i = j

C23_Witness ==
    /\ op = "concat" /\ pc = "Returned" /\ ToolSucceeded(tool)
    /\ segments = <<"segment-b", "segment-a">>
    /\ concat_list[1].data = "segment-b" /\ concat_list[2].data = "segment-a"
    /\ response.body.success

\* the temporary paths a response body of convert_audio or concatenate_audio
\* spells out
ResponsePaths ==
    IF response.status = 500 THEN response.body.detail.error.paths
    ELSE IF response.status = 200 /\ ~response.body.success
    THEN response.body.message.error.paths
    ELSE {}

\* C24: no response body carries internal detail: here, no body of
\* convert_audio or concatenate_audio, of a success or of a failure, spells
\* out a temporary file path.
C24_NoInternalDetailInResponse ==
    (op \in {"convert", "concat"} /\ pc = "Returned") => ResponsePaths = {}

\* C25: the answer of process_offline_session has one results entry per
\* recording, in the order of the request, each with its recording's
\* timestamp, and identifiedTracks is the number of results entries whose
\* is_spynners_track is true.
C25_BatchOutputCounts ==
    (op = "batch" /\ pc = "Returned") =>
        LET out == response.body.results IN
        /\ Len(out) = Len(recordings)
        /\ \A i \in 1..Len(out) : out[i].timestamp = recordings[i].timestamp
        /\ response.body.totalRecordings = Len(recordings)
        /\ response.body.identifiedTracks
              = Cardinality({ i \in 1..Len(out) :
                                out[i].success /\ out[i].is_spynners_track })

\* the form data follows from its own timestamp, key, data type and version
SelfConsistent(f, t, c) ==
    /\ f.timestamp = ToString(t)
    /\ f.access_key = AccessKey(c)
    /\ f.signature.hmac_key = AccessSecret(c)
    /\ f.signature.hmac_message
          = <<"POST", "\n", "/v1/identify", "\n", f.access_key, "\n", f.data_type,
              "\n", f.signature_version, "\n", f.timestamp>>

\* C26: every identify request that is sent, one per recognize_audio call
\* and one per recording of a batch, carries the time read for that request
\* and the signature of method, uri, access key, data type, signature version
\* and timestamp, joined by newlines in that order, over the values the
\* request itself carries, keyed with the access secret.
C26_RequestsSelfConsistentlySigned ==
    [][ /\ (op = "recognize" /\ calls' = Append(calls, "identify")) =>
              SelfConsistent(form', now, configured)
        /\ (op = "batch" /\ Len(item_env') = Len(item_env) + 1
              /\ item_env'[Len(item_env')].sample # NoSample) =>
              SelfConsistent(item_env'[Len(item_env')].form, now, configured)
      ]_vars

\* two recordings of one batch, sent at different times under different
\* signatures
C26_Witness ==
    /\ op = "batch" /\ pc = "Returned" /\ Len(item_env) = 2
    /\ item_env[1].form.timestamp = "0" /\ item_env[2].form.timestamp = "1"
    /\ item_env[1].form.signature # item_env[2].form.signature
    /\ item_env[1].form.signature.hmac_key = "secret"

\* the documents of the collection with the call's user, type and date
RecordsOf(coll, user_id, type, date) ==
    { i \in DOMAIN coll : coll[i] = Award(user_id, type, date) }

\* the call found the collection with a record of its triple in it
HadRecord(call) == RecordsOf(call.seen, call.user_id, call.type, call.today) # {}

Refused(call) ==
    /\ call.response = AlreadyAwarded
    /\ ~call.inserted /\ ~call.updated
    /\ call.position = "Returned"

\* C27 as stated: at most one record per (user_id, type, UTC date), and
\* every call for a triple that already has a record answers success false
\* with already_awarded true, inserts nothing and updates no balance.
C27_OneDiamondPerDay ==
    /\ \A type \in DiamondTypes, d \in 0..(MaxDays + 1) :
         Cardinality(RecordsOf(diamond_awards, DiamondUser, type, Today(d))) <= 1
    /\ \A c \in DOMAIN award_calls : HadRecord(award_calls[c]) => Refused(award_calls[c])

\* C27, amended: at most one record per (user_id, type, UTC date); a call
\* for a triple that already has a record inserts nothing and updates no
\* balance, and answers success false, with already_awarded true unless
\* its read of the collection raised.
C27_OneDiamondPerDayWhenReadable ==
    /\ \A type \in DiamondTypes, d \in 0..(MaxDays + 1) :
         Cardinality(RecordsOf(diamond_awards, DiamondUser, type, Today(d))) <= 1
    /\ \A c \in DOMAIN award_calls :
         HadRecord(award_calls[c]) =>
            \/ Refused(award_calls[c])
            \/ /\ award_calls[c].response = AwardFailed
               /\ ~award_calls[c].inserted /\ ~award_calls[c].updated

\* a second call of the day for the same type is refused after the first
\* one's balance update
C27_Witness ==
    /\ Len(award_calls) = 2
    /\ award_calls[1].updated /\ black_diamonds = 1
    /\ HadRecord(award_calls[2]) /\ Refused(award_calls[2])
    /\ Len(diamond_awards) = 1

\* C28: the scan of the fetched list keeps the first of the entries with a
\* non-empty title whose total is the highest among them, with that total
\* as best score; it keeps nothing when no such entry has a total above 0,
\* and the entry the match selects is never another one than the kept one.
C28_ScanKeepsFirstHighest ==
    (op = "match" /\ pc = "Matched") =>
        LET L == all_tracks.tracks
            r == Scan(track, L, 1, NoEntry, [num |-> 0, den |-> 1])
            totals == [i \in 1..Len(L) |-> total_score(track, L[i])]
            Titled == { i \in 1..Len(L) : L[i].title # <<>> }
            Positive == { i \in Titled : totals[i].num > 0 }
        IN /\ IF Positive = {} THEN r.best_match = NoEntry
              ELSE \E i \in Positive :
                      /\ \A j \in Titled : ~Greater(totals[j], totals[i])
                      /\ \A j \in Titled : j < i => Greater(totals[i], totals[j])
                      /\ r.best_match = L[i]
                      /\ r.best_score = totals[i]
           /\ spynners_track # NoEntry => spynners_track = r.best_match

\* two entries of equal total 0.45, the first of the two is selected
C28_Witness ==
    /\ op = "match" /\ pc = "Matched"
    /\ Len(all_tracks.tracks) = 2
    /\ track.title = <<"a">> /\ track.artist = <<"b">>
    /\ all_tracks.tracks[1].title = TitleAtThreshold
    /\ all_tracks.tracks[2].title = TitleAtThreshold
    /\ all_tracks.tracks[1].producer_name = all_tracks.tracks[2].producer_name
    /\ total_score(track, all_tracks.tracks[1]) = total_score(track, all_tracks.tracks[2])
    /\ spynners_track = all_tracks.tracks[1]
    /\ spynners_track # all_tracks.tracks[2]

\* the bonus by the stated rule alone, in hundredths
BonusByRule(a, p) ==
    IF Contains(a, p) \/ Contains(p, a) THEN 30
    ELSE IF Greater(similarity_score(a, p), [num |-> 1, den |-> 2]) THEN 20
    ELSE 0

\* total = 2/9 + 0.2 + bonus / 100
WithBonus(bonus) == [num |-> 3800 + 90 * bonus, den |-> 9000]

SameScore(x, y) == x.num * y.den = y.num * x.den

\* C29 as stated: the total of every entry carries 0.3 when either
\* normalized name contains the other, otherwise 0.2 when their similarity
\* is above 0.5, otherwise 0, empty names included.
C29_ArtistBonusEmptyIncluded ==
    (op = "match" /\ pc = "Matched") =>
        \A i \in 1..Len(catalog) :
            SameScore(total_score(track, catalog[i]),
                      WithBonus(BonusByRule(normalize_title(track.artist),
                                            normalize_title(catalog[i].producer_name))))

\* C29, amended: the bonus is 0 when one or both normalized names are empty;
\* otherwise it is 0.3 when either contains the other, otherwise 0.2 when
\* their similarity is above 0.5, otherwise 0; an entry is selected only
\* with a bonus, and an entry with 0.3 is preferred to one with 0.2.
C29_ArtistBonus ==
    (op = "match" /\ pc = "Matched") =>
        LET a == normalize_title(track.artist)
            bonus == [i \in 1..Len(catalog) |->
                        LET p == normalize_title(catalog[i].producer_name)
                        IN IF a = <<>> \/ p = <<>> THEN 0 ELSE BonusByRule(a, p)]
        IN /\ \A i \in 1..Len(catalog) :
                 SameScore(total_score(track, catalog[i]), WithBonus(bonus[i]))
           /\ spynners_track # NoEntry <=> \E i \in 1..Len(catalog) : bonus[i] > 0
           /\ \A i \in 1..Len(catalog) :
                 spynners_track = catalog[i] =>
                    \A j \in 1..Len(catalog) : bonus[j] <= bonus[i]

\* the artist "uvw": an entry of producer "uvx" (similar, 0.2) before one
\* of producer "uvw z" (contains the artist, 0.3): the second is selected
C29_Witness ==
    /\ op = "match" /\ pc = "Matched"
    /\ track.artist = <<"u", "v", "w">>
    /\ Len(catalog) = 2
    /\ catalog[1].producer_name = <<"u", "v", "x">>
    /\ catalog[2].producer_name = <<"U", "v", "w", "!", " ", "z">>
    /\ artist_bonus(normalize_title(track.artist),
                    normalize_title(catalog[1].producer_name)) = 20
    /\ spynners_track = catalog[2]

\* 0.7 x title similarity + 0.3 x artist similarity of the lowercased
\* strings, as a fraction
TwoFactor(t, e) ==
    LET tr == similarity_score(lower(e.title), lower(t.title))
        ar == similarity_score(lower(e.producer_name), lower(t.artist))
    IN [num |-> 7 * tr.num * ar.den + 3 * ar.num * tr.den,
        den |-> 10 * tr.den * ar.den]

\* the recording's candidate went to the catalog matcher
OfflineMatched(i) ==
    /\ item_env[i].reply.kind = "http" /\ item_env[i].reply.body.json
    /\ status_code(item_env[i].reply.body) = 0
    /\ PickTrackOffline(item_env[i].reply.body) # NoTrack
    /\ ~is_custom(PickTrackOffline(item_env[i].reply.body))

\* C30: the entry of a recording whose candidate is not a direct one is
\* linked to a catalog entry exactly when the fetch of the catalog
\* succeeded and the highest two-factor score of the fetched entries is
\* above 0.5 (0.5 itself does not pass); it is then linked to the first
\* entry of that score; otherwise it goes out with is_spynners_track false
\* and without a catalog id.
C30_OfflineTwoFactorLink ==
    (op = "batch" /\ pc = "Received") =>
        \A i \in 1..Len(results) :
            OfflineMatched(i) =>
                LET t == PickTrackOffline(item_env[i].reply.body)
                    L == FetchAll(catalog)
                    score == [k \in 1..Len(L) |-> TwoFactor(t, L[k])]
                    Top == { k \in 1..Len(L) :
                               \A j \in 1..Len(L) : ~Greater(score[j], score[k]) }
                    Passing == { k \in Top : score[k].num * 2 > score[k].den }
                IN IF item_env[i].fetch = "ok" /\ Passing # {}
                   THEN /\ results[i].is_spynners_track
                        /\ \E k \in Passing :
                              /\ \A j \in Passing : k <= j
                              /\ results[i].spynners_track_id = L[k].id
                              /\ results[i].producer_id = L[k].producer_id
                   ELSE /\ ~results[i].is_spynners_track
                        /\ results[i].spynners_track_id = 0
                        /\ results[i].success

\* where the two matchers differ: an entry of combined score 0.5 and one of
\* 0.175 are not linked, although the matcher of recognize_audio accepts
\* both (the second with a total of 0.45) and selects the first
C30_Witness ==
    /\ op = "batch" /\ pc = "Returned"
    /\ Len(catalog) = 2
    /\ catalog[1] = OfflineAtThreshold(1)
    /\ catalog[2].title = TitleAtThreshold
    /\ Len(results) = 1 /\ OfflineMatched(1) /\ item_env[1].fetch = "ok"
    /\ TwoFactor(PickTrackOffline(item_env[1].reply.body), catalog[1]).num * 2
          = TwoFactor(PickTrackOffline(item_env[1].reply.body), catalog[1]).den
    /\ ~results[1].is_spynners_track
    /\ FuzzyMatch(PickTrackOffline(item_env[1].reply.body), FetchAll(catalog))
          = catalog[1]
    /\ FuzzyMatch(PickTrackOffline(item_env[1].reply.body), <<catalog[2]>>)
          = catalog[2]

====
